---- MODULE Spec2Model ----
(***************************************************************************)
(* Verification model of the xfirefly scan engine: target ingestion, the   *)
(* request/response cache (pkg/runner/request.go), the per-target pipeline *)
(* (ProcessURL / runFingerDetection) and the rule tasks                    *)
(* (evaluateFingerprintWithCache).                                         *)
(*                                                                         *)
(* Strings are sequences of tokens; "http://" and "https://" are single    *)
(* tokens, every other token is one character.  Time is counted in half    *)
(* seconds so that the truncation of time.Now().Unix() is visible.         *)
(***************************************************************************)
EXTENDS Integers, Sequences, FiniteSets, TLC

VARIABLES
    cache,        \* globalCacheManager.cache: key -> CacheRequest
    now,          \* the wall clock, in half seconds
    nticks,       \* how often the clock has advanced (bounded)
    pendingDel,   \* expired-entry deletion goroutines not yet run: key -> count
    lastOp,       \* the cache operation that was the last step
    written,      \* history: key -> the records of the latest write still stored
    calls,        \* the calls of ShouldUseCache, UpdateTargetCache and ResetPoolStats
                  \* that are under way between two of their steps: caller -> call
    iconRequests, \* history: how many favicon requests were sent
    baseRequests, \* history: how many HEAD requests CheckProtocol and how many GET
                  \* requests GetTitle sent while GetBaseInfo ran
    cfg,          \* the options of the run: targets, mode, rule set, worker counts
    targets,      \* the list getTargets returned
    scanPc,       \* where Runner.Run is
    tsub,         \* how many targets runScan has submitted
    urlWg,        \* urlWg, the latch of runScan
    tg,           \* per target: the URL handler's position and its TargetResult
    task,         \* per target and fingerprint: the rule task
    resultChan,   \* resultChan of runScan
    Results,      \* r.Results
    rulePoolStats, \* rulePoolStats: the counters of the rule pool
    heap,         \* the backing arrays of the fingerprint slices: id -> pointers
    objs,         \* the Finger objects: pointer -> fingerprint
    AllFinger,    \* the global AllFinger: a slice header (array, len)
    nextArr,      \* the next array to allocate
    loading,      \* the LoadFingerprints call that holds allFingerMutex, if any
    nloads,       \* how many loads have begun (bounded)
    published,    \* history: the rule set when the lock was last free
    returned,     \* history: per load, its error flag and the rule set it left
    snapshots,    \* the snapshots returned, each with its contents when taken
    observed,     \* history: the counts and snapshots readers have seen
    ruleLocal,    \* the loop variable rule of evaluateFingerprintWithCache
    cmdPc,        \* where Execute stands: parsed, rejected, exit, verified, configured,
                  \* then inside Runner.Run, return, exited
    cmdEnv,       \* the step of Runner.Run that fails in this run, if any
    exitCode,     \* the exit code of the process: <<>> while it runs
    runErr,       \* the error Runner.Run returned ("none" for nil)
    deferred,     \* the deferred calls of Runner.Run, the latest first
    outputFile,   \* output.outputFile: nil, open, closed
    sockListener, \* output.sockListener: nil, open, shut (closed), closed (closed and
                  \* set to nil)
    sockConnections, \* output.sockConnections: the tracked connections
    conns,        \* the connections the listener accepted: open or not, handler position
    summaryPrinted, \* whether printSummary ran
    isRunning,    \* r.isRunning of the Runner
    otherRun,     \* another caller's Run on the same Runner: none, running, rejected,
                  \* returned
    cmdOptions,   \* the command line as NewCmdOptions parsed it
    Config,       \* r.Config, the ScanConfig NewRunner built (Nil before)
    site,         \* the server of the probed target: how it redirects
    httpClient,   \* the client.Do call in progress, if any
    probePc,      \* where ProcessURL stands on the probed target
    baseInfoResp, \* what GetBaseInfo returned (Nil before)
    targetResult, \* the TargetResult of the probed target
    matched,      \* the value the rule of the probed target was bound to
    serverHeader, \* the Server header of a response, a sequence of characters
    serverInfo,   \* the ServerInfo extracted from it (Nil before)
    protoHost,    \* the host CheckProtocol is called with
    protoNet,     \* how the host answers a HEAD request, per scheme
    headProbes,   \* history: the URLs CheckProtocolGet sent a HEAD request to
    protoResult,  \* what CheckProtocol returned (Nil before)
    clientConf,   \* c.conf of the TCP/UDP client
    clientConn,   \* c.conn: the number of the connection the client holds
    clientCall,   \* the Send or Receive in progress or returned (Nil before)
    dials,        \* history: the net.DialTimeout calls of the call
    sleeps        \* history: the time.Sleep(retryTimeout) calls of the call

storeVars == <<heap, objs, AllFinger, nextArr, loading, nloads, published, returned, snapshots,
               observed, ruleLocal>>

\* the command line
cmdVars == <<cmdPc, cmdOptions, Config, cmdEnv, exitCode, runErr, deferred, outputFile,
             sockListener, sockConnections, conns, summaryPrinted, isRunning, otherRun>>

\* the probe of one target
probeVars == <<site, httpClient, probePc, baseInfoResp, targetResult, matched>>

\* the server information of one response
serverVars == <<serverHeader, serverInfo>>

\* the scheme detection of one host
protoVars == <<protoHost, protoNet, headProbes, protoResult>>

\* the TCP/UDP client
clientVars == <<clientConf, clientConn, clientCall, dials, sleeps>>

netVars == <<protoVars, clientVars>>

frontVars == <<cmdVars, probeVars, serverVars, netVars>>

runVars == <<cfg, targets, scanPc, tsub, urlWg, tg, task, resultChan, Results, rulePoolStats>>

scanVars == <<cfg, targets, scanPc, tsub, urlWg, tg, task, resultChan, Results, rulePoolStats,
              storeVars, frontVars>>

cacheVars == <<cache, now, nticks, pendingDel, lastOp, written, calls, iconRequests, baseRequests>>

vars == <<cache, now, nticks, pendingDel, lastOp, written, calls, iconRequests, baseRequests,
          cfg, targets, scanPc, tsub, urlWg, tg, task, resultChan, Results, rulePoolStats,
          heap, objs, AllFinger, nextArr, loading, nloads, published, returned, snapshots,
          observed, ruleLocal,
          cmdPc, cmdOptions, Config, cmdEnv, exitCode, runErr, deferred, outputFile,
          sockListener, sockConnections, conns, summaryPrinted, isRunning, otherRun, site, httpClient, probePc, baseInfoResp, targetResult, matched,
          serverHeader, serverInfo,
          protoHost, protoNet, headProbes, protoResult,
          clientConf, clientConn, clientCall, dials, sleeps>>

----------------------------------------------------------------------------
(* Bounds of the model *)

\* maxSize of the CacheManager (2048 in the code), scaled down
maxSize == 2
\* how many times the clock may advance in one behaviour of the cache on its
\* own, and in one behaviour of a scan
MaxTicks == 2
MaxScanTicks == 1
\* deletion goroutines that may be pending for one key
MaxPending == 1

\* one second in clock units
TicksPerSec == 2
\* ttl of the CacheManager: 10 minutes, in seconds
ttlSeconds == 600

ttl == ttlSeconds * TicksPerSec

----------------------------------------------------------------------------
(* strings *)

Min(S) == CHOOSE x \in S : \A y \in S : x <= y
Max(S) == CHOOSE x \in S : \A y \in S : x >= y

\* strings.TrimSpace
TrimSpace(s) ==
    LET idx == {i \in 1..Len(s) : s[i] # " "}
    IN  IF idx = {} THEN <<>> ELSE SubSeq(s, Min(idx), Max(idx))

\* strings.HasPrefix(s, "http://") || strings.HasPrefix(s, "https://")
HasScheme(s) == Len(s) > 0 /\ s[1] \in {"http://", "https://"}

\* common.RemoveTrailingSlash: drops ONE trailing slash
RemoveTrailingSlash(url) ==
    IF Len(url) > 0 /\ url[Len(url)] = "/" THEN SubSeq(url, 1, Len(url) - 1) ELSE url

\* strings.TrimRight(target, "/"): drops EVERY trailing slash
TrimRightSlash(target) ==
    LET idx == {i \in 1..Len(target) : target[i] # "/"}
    IN  IF idx = {} THEN <<>> ELSE SubSeq(target, 1, Max(idx))

\* common.ParseTarget
ParseTarget(target, path) ==
    IF path = <<>> THEN TrimRightSlash(target) ELSE TrimRightSlash(target) \o path

\* strings.ToUpper on the method names the model uses
ToUpper(m) == IF m = "get" THEN "GET" ELSE IF m = "post" THEN "POST" ELSE m

\* strings.ToLower on the request types the model uses
ToLower(t) == IF t = "HTTP" THEN "http" ELSE t

----------------------------------------------------------------------------
(* the request/response cache *)

NoKey == <<>>
Nil == [nil |-> TRUE]

\* time.Now().Unix(): whole seconds, truncated
Unix(t) == t \div TicksPerSec

\* time.Since(time.Unix(ts, 0)), in clock units
SinceUnix(ts, t) == t - ts * TicksPerSec

\* GenerateCacheKey: MD5 of "url:METHOD:bool"; the hash is taken to be
\* injective, and the three parts can be read back from the joined string
GenerateCacheKey(target, method, followRedirects) == <<target, method, followRedirects>>

\* an expiry test that accepts every entry
FreshAlways(entry, t) == TRUE

\* the expiry test of ShouldUseCache
Fresh(entry, t) == SinceUnix(entry.Timestamp, t) <= ttl

\* the expiry test of cleanupExpiredEntries
Expired(entry, t) == SinceUnix(entry.Timestamp, t) > ttl

\* ShouldUseCache up to the lookup: the key it reads, NoKey when the rule
\* request is not cacheable
ReadKey(req, target) ==
    LET reqType == ToLower(req.Type)
        method  == ToUpper(req.Method)
    IN  IF reqType # "" /\ reqType # "http" THEN NoKey
        ELSE IF req.Headers \/ req.Body # 0 \/ method \notin {"GET", "POST"} THEN NoKey
        ELSE IF target = <<>> THEN NoKey
        ELSE GenerateCacheKey(RemoveTrailingSlash(target), method, req.FollowRedirects)

\* ShouldUseCache up to RUnlock: the key, and the entry found under the read
\* lock (Nil when the request is not cacheable or the key is not stored)
ShouldUseCacheLookup(c, req, target) ==
    LET k == ReadKey(req, target)
    IN  [op |-> "read", key |-> k,
         entry |-> IF k = NoKey \/ k \notin DOMAIN c THEN Nil ELSE c[k]]

\* ShouldUseCache after RUnlock, on the entry found and the clock read then:
\* (hit, CacheRequest) and the key whose deletion it starts
ShouldUseCacheAge(found, t) ==
    IF found.entry = Nil
    THEN [hit |-> FALSE, Request |-> Nil, Response |-> Nil, key |-> found.key, spawn |-> NoKey]
    ELSE IF Fresh(found.entry, t)
    THEN [hit |-> TRUE, Request |-> found.entry.Request, Response |-> found.entry.Response,
          key |-> found.key, spawn |-> NoKey]
    ELSE [hit |-> FALSE, Request |-> Nil, Response |-> Nil, key |-> found.key,
          spawn |-> found.key]

\* ShouldUseCache when nothing runs between its lookup and its clock read
ShouldUseCache(c, req, target, t) == ShouldUseCacheAge(ShouldUseCacheLookup(c, req, target), t)

\* the key UpdateTargetCache writes, NoKey when it returns early
WriteKey(req, resp, target, followRedirects) ==
    IF req = Nil \/ resp = Nil THEN NoKey
    ELSE IF target = <<>> THEN NoKey
    ELSE IF req.Body # 0 \/ ToUpper(req.Method) \notin {"GET", "POST"} THEN NoKey
    ELSE GenerateCacheKey(RemoveTrailingSlash(target), ToUpper(req.Method), followRedirects)

\* maxCacheSize of UpdateTargetCache (1 MiB), in units of 256 KiB
maxCacheSize == 4

Truncate(len) == IF len > maxCacheSize THEN maxCacheSize ELSE len

\* evictOldestEntries: the keys one of which is deleted; {NoKey} when none is.
\* The loop keeps the entry with the least Timestamp below time.Now().Unix();
\* among equal timestamps the map's iteration order decides.
EvictChoices(c, t) ==
    IF Cardinality(DOMAIN c) < maxSize THEN {NoKey}
    ELSE LET older == {k \in DOMAIN c : c[k].Timestamp < Unix(t)}
         IN  IF older = {} THEN {NoKey}
             ELSE {k \in older : \A j \in older : c[k].Timestamp <= c[j].Timestamp}

Remove(c, ks) == [k \in DOMAIN c \ ks |-> c[k]]

Put(c, k, e) == [j \in DOMAIN c \cup {k} |-> IF j = k THEN e ELSE c[j]]

\* history: the key the specification gives a write (url without its trailing
\* slash, METHOD, follow_redirects)
SpecKey(target, method, follow) == <<RemoveTrailingSlash(target), ToUpper(method), follow>>

\* UpdateTargetCache up to mutex.Lock(): the key and the CacheRequest it has
\* built, with the clock read for its Timestamp; the key is NoKey when it
\* returns early.  at is the exact time of that clock reading and spec the
\* key the specification gives the write (history, not program state)
NewCacheRequest(req, resp, target, followRedirects, t) ==
    LET k == WriteKey(req, resp, target, followRedirects)
    IN  IF k = NoKey THEN [op |-> "write", key |-> NoKey]
        ELSE [op |-> "write", key |-> k,
              entry |-> [Request   |-> req,
                         Response  |-> [resp EXCEPT !.Body = Truncate(resp.Body)],
                         Timestamp |-> Unix(t),
                         at        |-> t],
              spec |-> SpecKey(target, req.Method, followRedirects)]

\* a store that leaves the entry a key already has
UpdateTargetCacheKeepsFirst(c, call, victim) ==
    IF call.key \in DOMAIN Remove(c, {victim}) THEN Remove(c, {victim})
    ELSE Put(Remove(c, {victim}), call.key, call.entry)

\* UpdateTargetCache under the lock: evictOldestEntries with the evicted key
\* chosen, then the store
UpdateTargetCache(c, call, victim) == Put(Remove(c, {victim}), call.key, call.entry)

\* history: what the store leaves in written
WrittenAfter(w, call, victim) ==
    Put(Remove(w, {victim}), call.spec, <<call.entry.Request, call.entry.Response>>)

Methods == {"GET", "POST", "HEAD", "PUT", "DELETE", "OPTIONS"}

\* ClearTargetURLCache
ClearTargetURLCache(c, target) ==
    IF target = <<>> THEN c
    ELSE Remove(c, {GenerateCacheKey(RemoveTrailingSlash(target), m, r) :
                        m \in Methods, r \in BOOLEAN})

\* a sweep that finds the expired keys and deletes none
cleanupKeepsAll(c, t) == c

\* cleanupExpiredEntries
cleanupExpiredEntries(c, t) == Remove(c, {k \in DOMAIN c : Expired(c[k], t)})

\* GetCacheStats()["total_entries"]
total_entries(c) == Cardinality(DOMAIN c)

\* the goroutine ShouldUseCache starts for an expired entry
Spawn(p, k) ==
    IF k = NoKey THEN p
    ELSE [j \in DOMAIN p \cup {k} |->
            IF j = k THEN (IF k \in DOMAIN p THEN p[k] ELSE 0) + 1 ELSE p[j]]

PendingOf(p, k) == IF k \in DOMAIN p THEN p[k] ELSE 0

EmptyMap == [k \in {} |-> 0]

----------------------------------------------------------------------------
(* target ingestion *)

RECURSIVE RemoveDup(_, _, _)
\* the loop of RemoveDuplicateURLs: trim, skip blanks, keep first occurrences
RemoveDup(urls, i, result) ==
    IF i > Len(urls) THEN result
    ELSE LET u == TrimSpace(urls[i])
         IN  IF u = <<>> \/ (\E j \in 1..Len(result) : result[j] = u)
             THEN RemoveDup(urls, i + 1, result)
             ELSE RemoveDup(urls, i + 1, Append(result, u))

\* a loop that trims and skips blanks but keeps every occurrence
RemoveBlanksOnly(urls) ==
    LET keep == {i \in 1..Len(urls) : TrimSpace(urls[i]) # <<>>}
        nth(n) == CHOOSE i \in keep : Cardinality({j \in keep : j <= i}) = n
    IN  [n \in 1..Cardinality(keep) |-> TrimSpace(urls[nth(n)])]

\* common.RemoveDuplicateURLs
RemoveDuplicateURLs(urls) == RemoveDup(urls, 1, <<>>)

\* the sequences without repetition over a set: the orders in which ranging
\* over the map of unique lines can yield them
Orders(S) == {s \in [1..Cardinality(S) -> S] : \A i, j \in 1..Cardinality(S) : s[i] = s[j] => i = j}

\* the unique map of getTargets: trimmed, non-blank lines of the target file
UniqueLines(lines) == {TrimSpace(lines[i]) : i \in 1..Len(lines)} \ {<<>>}

\* getTargets: the lists it can return; err is set where it returns an error
\* (no file is named, or os.Open fails on the named file).  The lines of the
\* target file are taken to fit the scanner's buffer
getTargets(options) ==
    IF Len(options.Target) > 0
    THEN {[err |-> FALSE, targets |-> RemoveDuplicateURLs(options.Target)]}
    ELSE IF ~options.HasTargetsList
    THEN {[err |-> TRUE, targets |-> <<>>]}
    ELSE IF ~options.ListOpens
    THEN {[err |-> TRUE, targets |-> <<>>]}
    ELSE {[err |-> FALSE, targets |-> s] : s \in Orders(UniqueLines(options.TargetsList))}

----------------------------------------------------------------------------
(* fingerprints *)

RuleRequest(method, path, headers, followRedirects) ==
    [Type |-> "", Method |-> method, Path |-> path, Headers |-> headers, Body |-> 0,
     FollowRedirects |-> followRedirects]

RuleOf(key, request, expression) ==
    [Key |-> key, Request |-> request, Expression |-> expression,
     StopIfMatch |-> FALSE, StopIfMismatch |-> FALSE]

\* a rule with stop_if_match / stop_if_mismatch
RuleStop(key, request, expression, stopIfMatch, stopIfMismatch) ==
    [Key |-> key, Request |-> request, Expression |-> expression,
     StopIfMatch |-> stopIfMatch, StopIfMismatch |-> stopIfMismatch]

\* GET, empty path, no headers, empty body
PlainRequest == RuleRequest("GET", <<>>, FALSE, FALSE)

\* two rules of that kind in one fingerprint
fTwo == [Id |-> "two", Expression |-> "and",
         Rules |-> <<RuleOf("r0", PlainRequest, "true"), RuleOf("r1", PlainRequest, "is1")>>]

\* one rule of that kind
fOne == [Id |-> "one", Expression |-> "and",
         Rules |-> <<RuleOf("r0", PlainRequest, "true")>>]

\* another fingerprint of one such rule
fOneB == [Id |-> "oneB", Expression |-> "and",
          Rules |-> <<RuleOf("r0", PlainRequest, "is1")>>]

\* one rule on the path "/"
fRoot == [Id |-> "root", Expression |-> "and",
          Rules |-> <<RuleOf("r0", RuleRequest("GET", <<"/">>, FALSE, FALSE), "is1")>>]

\* two rules that ask for redirects to be followed
fFollow == [Id |-> "follow", Expression |-> "and",
            Rules |-> <<RuleOf("r0", RuleRequest("GET", <<>>, FALSE, TRUE), "true"),
                        RuleOf("r1", RuleRequest("GET", <<>>, FALSE, TRUE), "true")>>]

\* rules that send requests of their own: a path, a method, headers; and a
\* path that is "/" once trimmed
fActive == [Id |-> "active", Expression |-> "and",
            Rules |-> <<RuleOf("r0", RuleRequest("GET", <<"/", "x">>, FALSE, FALSE), "true"),
                        RuleOf("r1", RuleRequest("POST", <<>>, FALSE, FALSE), "true"),
                        RuleOf("r2", RuleRequest("GET", <<>>, TRUE, FALSE), "true"),
                        RuleOf("r3", RuleRequest("GET", <<" ", "/">>, FALSE, FALSE), "true")>>]

\* a rule expression and a final expression that do not compile
fErr == [Id |-> "err", Expression |-> "err",
         Rules |-> <<RuleOf("r0", PlainRequest, "err")>>]

\* a final expression whose value is not a boolean
fPanic == [Id |-> "panic", Expression |-> "nonbool",
           Rules |-> <<RuleOf("r0", PlainRequest, "false")>>]

\* a rule expression whose value is not a boolean
fRulePanic == [Id |-> "rulepanic", Expression |-> "and",
               Rules |-> <<RuleOf("r0", PlainRequest, "nonbool")>>]

\* no rules at all
fNone == [Id |-> "none", Expression |-> "and", Rules |-> <<>>]


\* no rules, and a final expression that does not compile
fErrNone == [Id |-> "errnone", Expression |-> "err", Rules |-> <<>>]

\* no rules, and a final expression whose value is not a boolean
fPanicNone == [Id |-> "panicnone", Expression |-> "nonbool", Rules |-> <<>>]

\* a rule with stop_if_match that is true, and a rule after it
fStop == [Id |-> "stop", Expression |-> "and",
          Rules |-> <<RuleStop("r0", PlainRequest, "true", TRUE, FALSE),
                      RuleOf("r1", PlainRequest, "true")>>]

\* a rule with stop_if_mismatch that is false, and a rule after it
fStopMis == [Id |-> "stopmis", Expression |-> "and",
             Rules |-> <<RuleStop("r0", PlainRequest, "false", FALSE, TRUE),
                         RuleOf("r1", PlainRequest, "true")>>]

\* a rule that sends a request of its own, a rule whose expression does not
\* compile, and a rule after them
fFaulty == [Id |-> "faulty", Expression |-> "and",
            Rules |-> <<RuleOf("r0", RuleRequest("GET", <<"/", "x">>, FALSE, FALSE), "true"),
                        RuleOf("r1", PlainRequest, "err"),
                        RuleOf("r2", PlainRequest, "true")>>]

\* the request of a base probe
GetReq == [Method |-> "GET", Body |-> 0]

\* the response a base probe returns, and the one a rule probe returns
BaseResp == [id |-> 1, Body |-> 2]
RuleResp == [id |-> 2, Body |-> 2]
\* the placeholder response evaluateFingerprintWithCache starts with
InitResp == [id |-> 0, Body |-> 0]

\* an evaluator that reads r0 && r1 && ... as a disjunction
EvaluateAny(expression, response, bound) ==
    CASE expression = "true"    -> [kind |-> "bool", val |-> TRUE]
      [] expression = "false"   -> [kind |-> "bool", val |-> FALSE]
      [] expression = "is1"     -> [kind |-> "bool", val |-> response.id = 1]
      [] expression = "status200" -> [kind |-> "bool", val |-> response.status = 200]
      [] expression = "and"     -> [kind |-> "bool", val |-> \E k \in DOMAIN bound : bound[k]]
      [] expression = "nonbool" -> [kind |-> "nonbool", val |-> FALSE]
      [] OTHER                  -> [kind |-> "err", val |-> FALSE]

\* customLib.Evaluate on the expressions the model uses
Evaluate(expression, response, bound) ==
    CASE expression = "true"    -> [kind |-> "bool", val |-> TRUE]
      [] expression = "false"   -> [kind |-> "bool", val |-> FALSE]
      [] expression = "is1"     -> [kind |-> "bool", val |-> response.id = 1]
      [] expression = "status200" -> [kind |-> "bool", val |-> response.status = 200]
      [] expression = "and"     -> [kind |-> "bool", val |-> \A k \in DOMAIN bound : bound[k]]
      [] expression = "nonbool" -> [kind |-> "nonbool", val |-> FALSE]
      [] OTHER                  -> [kind |-> "err", val |-> FALSE]

\* a gate that looks at the path only
GatedByPathOnly(request, path) == path # <<>> /\ path # <<"/">>

\* the rules evaluateFingerprintWithCache skips when fingerActive is false
Gated(request, path) ==
    \/ path # <<>> /\ path # <<"/">>
    \/ request.Method # "GET"
    \/ request.Headers

----------------------------------------------------------------------------
(* the scan: Runner.Run, runScan, ProcessURL, runFingerDetection, rule tasks *)

\* MaxBlockingTasks of the rule pool per worker (10 in the code), scaled down
RuleBlockingFactor == 1
\* the cap on the per-target result channel (512 in the code), scaled down
maxChanCap == 2

\* a result channel that holds one match whatever the rule count
chanCapOne(ruleCount) == 1

\* capacity of the result channel of runFingerDetection
chanCap(ruleCount) ==
    IF ruleCount > maxChanCap THEN maxChanCap
    ELSE IF ruleCount < 1 THEN 1 ELSE ruleCount

\* capacity of the result channel of runScan
scanChanCap(urlWorkerCount, n) ==
    LET caps == IF urlWorkerCount * 2 < 1 THEN 1 ELSE urlWorkerCount * 2
    IN  IF caps > n THEN n ELSE caps

\* select { case ch <- x: default: }
TrySend(ch, cap, x) == IF Len(ch) < cap THEN Append(ch, x) ELSE ch

\* the TargetResult ProcessURL starts with; probes counts the page requests
\* sent for the target (history)
NewTarget(target) ==
    [pc |-> "idle", url |-> target, baseOk |-> FALSE, fi |-> 1, wg |-> 0,
     chan |-> <<>>, matches |-> <<>>, emitted |-> 0, probes |-> 0, again |-> FALSE]

\* a rule task not yet submitted
NewTask ==
    [pc |-> "none", ri |-> 1, bound |-> EmptyMap, resp |-> InitResp, seen |-> <<>>,
     end |-> "none", result |-> FALSE]

\* output only for the targets whose base information was fetched
handleMatchResultsIfBase(rec) == IF rec.baseOk THEN [rec EXCEPT !.emitted = @ + 1] ELSE rec

\* handleMatchResults: one fan-out of the TargetResult to the output sinks
handleMatchResults(rec) == [rec EXCEPT !.emitted = @ + 1]

\* a submitter that gives up at the first error of SubmitRuleTask
SubmitNever(first) == FALSE

\* whether SubmitRuleTask is called again after an error: once, after the
\* first error
SubmitAgain(first) == first

\* a rejected submission that leaves the latch alone
RejectedKeeps(wg) == wg

\* wg.Done() after a submission that failed twice
RejectedDone(wg) == wg - 1

\* NoFile: no target file is named
NoFile == <<"-">>
\* the named target file does not exist or cannot be read
MissingFile == <<"?">>

\* the options of a run; TargetsList holds the lines of the named file.  Page
\* is the kind of page the targets send and Script the i18n script it names
\* (Nil: none).  A program that embeds the runner
\* may call ScanTarget, on ApiTarget, and ResetPoolStats (Nil and FALSE: the
\* command line, which calls neither)
Options(target, list, active, fingers, urlWorkers, ruleWorkers) ==
    [Target |-> target, HasTargetsList |-> list # NoFile,
     ListOpens |-> list # MissingFile,
     TargetsList |-> IF list \in {NoFile, MissingFile} THEN <<>> ELSE list,
     Active |-> active, AllFinger |-> fingers,
     URLWorkerCount |-> urlWorkers, FingerWorkerCount |-> ruleWorkers,
     Page |-> "text", Script |-> Nil, ApiTarget |-> Nil, ApiReset |-> FALSE]

\* the same run against targets that send pages of the kind page
OnPage(options, page) == [options EXCEPT !.Page = page]

\* the same run against targets whose page names the i18n script
WithScript(options, script) == [options EXCEPT !.Script = script]

\* the same run inside a program that also calls ScanTarget(target)
Embedded(options, target) == [options EXCEPT !.ApiTarget = target]

\* the same run inside a program that also calls ResetPoolStats()
Resetting(options) == [options EXCEPT !.ApiReset = TRUE]

\* the target of the URL handler i; the handler after those of the scan is the
\* ScanTarget call
TargetOf(i) == IF i <= Len(targets) THEN targets[i] ELSE cfg.ApiTarget

\* rule tasks that occupy a worker of the rule pool: from the start of the
\* handler until the handler has returned, or until the worker of a task that
\* panicked has given up its place
RunningTasks == {p \in DOMAIN task : task[p].pc \notin {"none", "freed", "done"}}

FreeRuleWorker == Cardinality(RunningTasks) < cfg.FingerWorkerCount

\* submitters blocked in Invoke of the rule pool
Waiting == Cardinality({i \in DOMAIN tg : tg[i].pc = "blocked"})

MaxBlockingTasks == cfg.FingerWorkerCount * RuleBlockingFactor

\* targets that occupy a worker of the URL pool
RunningTargets ==
    {i \in 1..Len(targets) : tg[i].pc \notin {"idle", "queued", "done", "panicked"}}

\* the submit loop of runFingerDetection moves on to the next fingerprint
NextFinger(rec) ==
    [rec EXCEPT !.fi = @ + 1, !.again = FALSE,
                !.pc = IF rec.fi + 1 > Len(cfg.AllFinger) THEN "wait" ELSE "submit"]

\* a rule task as its worker picks it up
StartTask(fg) == [NewTask EXCEPT !.pc = IF Len(fg.Rules) = 0 THEN "final" ELSE "run"]

\* WriteRuleFunctionsROptions(rule.Key, val) and on to the next rule; src and
\* resp record where the rule's response came from (history)
Bind(rec, fg, key, val, src, resp) ==
    [rec EXCEPT !.bound = Put(@, key, val),
                !.seen = Append(@, [key |-> key, src |-> src, resp |-> resp.id]),
                !.resp = resp,
                !.ri = @ + 1,
                !.pc = IF rec.ri + 1 > Len(fg.Rules) THEN "final" ELSE "run"]

\* an evaluation that ends the task when the rule expression has an error
RuleOutcomeErrStops(rec, fg, rule, src, resp) ==
    LET ev == Evaluate(rule.Expression, resp, rec.bound)
    IN  IF ev.kind # "bool"
        THEN [rec EXCEPT !.pc = "defer", !.end = IF ev.kind = "err" THEN "err" ELSE "panic",
                         !.resp = resp,
                         !.seen = Append(@, [key |-> rule.Key, src |-> src, resp |-> resp.id])]
        ELSE Bind(rec, fg, rule.Key, ev.val, src, resp)

\* the rule expression on the response in hand: a CEL error binds false, a
\* value that is no boolean panics in result.Value().(bool)
RuleOutcome(rec, fg, rule, src, resp) ==
    LET ev == Evaluate(rule.Expression, resp, rec.bound)
    IN  IF ev.kind = "nonbool"
        THEN [rec EXCEPT !.pc = "defer", !.end = "panic", !.resp = resp,
                         !.seen = Append(@, [key |-> rule.Key, src |-> src, resp |-> resp.id])]
        ELSE Bind(rec, fg, rule.Key, ev.kind = "bool" /\ ev.val, src, resp)

\* the counters of the rule pool before any task
NoStats == [TotalTasks |-> 0, CompletedTasks |-> 0, FailedTasks |-> 0]

\* SubmitRuleTask after Invoke has returned nil: the count of submitted tasks
Submitted(st) == [st EXCEPT !.TotalTasks = @ + 1]

\* processRuleTask when evaluateFingerprintWithCache returns an error
Failed(st) == [st EXCEPT !.FailedTasks = @ + 1]

\* the handler of the rule pool once processRuleTask has returned, with or
\* without an error: a completion is counted
Counted(st) == [st EXCEPT !.CompletedTasks = @ + 1]

\* the panic handler of the rule pool: a failure is counted
PanicCounted(st) == [st EXCEPT !.FailedTasks = @ + 1]

\* the deferred wg.Done() of processRuleTask
TaskDone(rec) == [rec EXCEPT !.wg = @ - 1]

\* ResetPoolStats: the counter its next atomic store sets to zero
ResetOrder == <<"TotalTasks", "CompletedTasks", "FailedTasks">>

----------------------------------------------------------------------------
(* the rule store: AllFinger, LoadFingerprints, GetAllFingerSnapshot *)

\* loads that may begin, snapshots that may be taken and observations that
\* may be recorded in one behaviour
MaxLoads == 2
MaxSnapshots == 2
MaxObserved == 2

\* file names: a stem and an extension
fileA == <<"a", ".yaml">>
\* a file that decodes, and holds only "transport: ftp" and "expression: r9()":
\* no id, no rules, a call of a rule that is not defined, an unknown transport
fileB == <<"b", ".yml">>
fileTxt == <<"x", ".txt">>
\* a file that finger.Read cannot decode
fileBad == <<"bad", ".yaml">>
\* the file of the embedded library
fileE == <<"e", ".yaml">>

\* common.IsYamlFile
IsYamlFile(filename) ==
    Len(filename) > 0 /\ filename[Len(filename)] \in {".yaml", ".yml"}

\* finger.Read returns an error
ReadFails(filename) == filename = fileBad

\* the Finger finger.Read decodes from a file: the fields the YAML holds, the
\* others left at their zero values; Expression lists the rules it calls
FingerOf(filename) ==
    [Id         |-> IF filename = fileB THEN "" ELSE filename[1],
     Path       |-> <<" ", "/", " ">>,
     Transport  |-> IF filename = fileB THEN "ftp" ELSE "http",
     Rules      |-> IF filename = fileB THEN <<>> ELSE <<"r0">>,
     Expression |-> IF filename = fileB THEN <<"r9">> ELSE <<"r0">>]

\* the pointer of the Finger a load allocates for a file
PtrOf(filename, epoch) == <<filename[1], epoch>>

\* the directories of the file system: their files in walk order
DirFiles(path) ==
    IF path = "rules" THEN <<fileA, fileTxt, fileBad, fileB>> ELSE <<>>

\* filepath.WalkDir returns an error: the directory does not exist, or it
\* cannot be read
WalkFails(path) == path \in {"missing", "locked"}

\* common.DirIsExist on the ./fingerprint directory: "" stands for none
DirIsExist(path) == path # ""

\* common.ExistYamlFile: whether the walk returned nil.  The walk ends with
\* SkipDir at the first yaml file and with nil when there is none, so it tells
\* only whether the directory could be walked
ExistYamlFile(path) == ~WalkFails(path)

\* a nil slice; array 0 is the empty array
NilSlice == [arr |-> 0, len |-> 0]

\* the elements of a slice
Contents(h, sl) == SubSeq(h[sl.arr], 1, sl.len)

\* append(sl, ptr): in place when the capacity allows, else into a new array
\* of twice the capacity
SliceAppend(st, ptr) ==
    LET arr == st.h[st.sl.arr]
    IN  IF st.sl.len < Len(arr)
        THEN [st EXCEPT !.h = [st.h EXCEPT ![st.sl.arr] = [arr EXCEPT ![st.sl.len + 1] = ptr]],
                        !.sl = [arr |-> st.sl.arr, len |-> st.sl.len + 1]]
        ELSE LET newcap == IF Len(arr) = 0 THEN 1 ELSE 2 * Len(arr)
                 new    == [i \in 1..newcap |->
                               IF i <= st.sl.len THEN arr[i]
                               ELSE IF i = st.sl.len + 1 THEN ptr ELSE <<"nil", 0>>]
             IN  [st EXCEPT !.h = Put(st.h, st.next, new),
                            !.sl = [arr |-> st.next, len |-> st.sl.len + 1],
                            !.next = st.next + 1]

\* finger.Read of a file that decodes, and append of its Finger
ReadAppend(st, filename, epoch) ==
    [SliceAppend(st, PtrOf(filename, epoch))
        EXCEPT !.o = Put(st.o, PtrOf(filename, epoch), FingerOf(filename))]

RECURSIVE WalkDir(_, _, _, _)
\* the walk of utils.GetCustomFingerYaml: the yaml files that decode
WalkDir(st, files, i, epoch) ==
    IF i > Len(files) THEN st
    ELSE IF IsYamlFile(files[i]) /\ ~ReadFails(files[i])
    THEN WalkDir(ReadAppend(st, files[i], epoch), files, i + 1, epoch)
    ELSE WalkDir(st, files, i + 1, epoch)

\* utils.GetCustomFingerYaml / utils.GetFingerYaml on a list of files: the
\* slice it builds from nil
CollectFingers(st, files, epoch) == WalkDir([st EXCEPT !.sl = NilSlice], files, 1, epoch)

\* types.YamlFingerType, and LocalDir: the ./fingerprint directory of the
\* working directory ("" when there is none, "locked" when it cannot be read)
LoadOptions(fingerYaml, fingerPath, localDir) ==
    [FingerYaml |-> fingerYaml, FingerPath |-> fingerPath, LocalDir |-> localDir]

\* LoadFingerprints after AllFinger = AllFinger[:0]: the store it leaves and
\* whether it returns an error.  st.sl is AllFinger
LoadBody(st, options, epoch) ==
    IF Len(options.FingerYaml) # 0
    THEN LET fyaml == options.FingerYaml[1]
         IN  IF ~IsYamlFile(fyaml) \/ ReadFails(fyaml)
             THEN [st |-> st, err |-> TRUE]
             ELSE [st |-> ReadAppend(st, fyaml, epoch), err |-> FALSE]
    ELSE IF options.FingerPath # ""
    THEN IF WalkFails(options.FingerPath)
         THEN [st |-> st, err |-> TRUE]
         ELSE [st |-> CollectFingers(st, DirFiles(options.FingerPath), epoch), err |-> FALSE]
    ELSE IF DirIsExist(options.LocalDir) /\ ExistYamlFile(options.LocalDir)
    THEN [st |-> CollectFingers(st, DirFiles(options.LocalDir), epoch), err |-> FALSE]
    ELSE [st |-> CollectFingers(st, <<fileE>>, epoch), err |-> FALSE]

\* a snapshot that shares the array of AllFinger
SnapshotAlias(st) == st

\* GetAllFingerSnapshot: nil for an empty AllFinger, else a copy in a new
\* array.  st.sl is AllFinger on entry and the snapshot on return
GetAllFingerSnapshot(st) ==
    IF st.sl.len = 0 THEN [st EXCEPT !.sl = NilSlice]
    ELSE [st EXCEPT !.h = Put(st.h, st.next, Contents(st.h, st.sl)),
                    !.sl = [arr |-> st.next, len |-> st.sl.len],
                    !.next = st.next + 1]

\* GetFingerCount
GetFingerCount(sl) == sl.len

\* the store as the operators above take it
Store == [h |-> heap, o |-> objs, sl |-> AllFinger, next |-> nextArr]

NotLoading == [active |-> FALSE, options |-> LoadOptions(<<>>, "", "")]

\* the load in progress, 0 when there is none
Epoch == IF loading.active THEN nloads ELSE 0

\* history: what a reader has seen
Observe(kind, val) ==
    [kind |-> kind, val |-> val, before |-> published, epoch |-> Epoch]

\* calls of LoadFingerprints
LoadInputs ==
    { LoadOptions(<<fileA>>, "", ""),
      LoadOptions(<<fileB, fileA>>, "", ""),
      LoadOptions(<<fileTxt>>, "", ""),
      LoadOptions(<<fileBad, fileA>>, "", ""),
      LoadOptions(<<>>, "rules", ""),
      LoadOptions(<<>>, "empty", ""),
      LoadOptions(<<>>, "missing", ""),
      LoadOptions(<<>>, "", ""),
      LoadOptions(<<>>, "", "rules"),
      LoadOptions(<<>>, "", "empty"),
      LoadOptions(<<>>, "", "locked") }

StoreInit ==
    /\ heap = [a \in {0} |-> <<>>]
    /\ objs = EmptyMap
    /\ AllFinger = NilSlice
    /\ nextArr = 1
    /\ loading = NotLoading
    /\ nloads = 0
    /\ published = <<>>
    /\ returned = <<>>
    /\ snapshots = <<>>
    /\ observed = {}
    /\ ruleLocal = Nil

\* LoadFingerprints takes the write lock and empties AllFinger in place
LoadBegin ==
    \E options \in LoadInputs :
      /\ ~loading.active
      /\ nloads < MaxLoads
      /\ loading' = [active |-> TRUE, options |-> options]
      /\ nloads' = nloads + 1
      /\ AllFinger' = [AllFinger EXCEPT !.len = 0]
      /\ UNCHANGED <<heap, objs, nextArr, published, returned, snapshots, observed, ruleLocal>>
      /\ UNCHANGED <<cacheVars, runVars, frontVars>>

\* LoadFingerprints reads the files, sets AllFinger and returns; the deferred
\* Unlock runs
LoadReturn ==
    /\ loading.active
    /\ LET r == LoadBody(Store, loading.options, nloads)
       IN  /\ heap' = r.st.h
           /\ objs' = r.st.o
           /\ AllFinger' = r.st.sl
           /\ nextArr' = r.st.next
           /\ published' = Contents(r.st.h, r.st.sl)
           /\ returned' = Append(returned, [err |-> r.err, before |-> published,
                                            set |-> Contents(r.st.h, r.st.sl)])
    /\ loading' = NotLoading
    /\ UNCHANGED <<nloads, snapshots, observed, ruleLocal>>
    /\ UNCHANGED <<cacheVars, runVars, frontVars>>

\* runFingerDetection: localFingers := GetAllFingerSnapshot(), under the read
\* lock
TakeSnapshot ==
    /\ ~loading.active
    /\ Len(snapshots) < MaxSnapshots
    /\ LET r     == GetAllFingerSnapshot(Store)
           taken == Contents(r.h, r.sl)
       IN  /\ heap' = r.h
           /\ nextArr' = r.next
           /\ snapshots' = Append(snapshots,
                                  [slice |-> r.sl, taken |-> taken,
                                   fingers |-> [i \in 1..Len(taken) |-> objs[taken[i]]],
                                   from |-> AllFinger.arr, epoch |-> nloads])
           /\ observed' = IF Cardinality(observed) < MaxObserved
                          THEN observed \cup {Observe("snapshot", taken)} ELSE observed
    /\ UNCHANGED <<objs, AllFinger, loading, nloads, published, returned, ruleLocal>>
    /\ UNCHANGED <<cacheVars, runVars, frontVars>>

\* runFingerDetection: ruleCount := GetFingerCount(), under the read lock
CountFingers ==
    /\ ~loading.active
    /\ Cardinality(observed) < MaxObserved
    /\ observed' = observed \cup {Observe("count", GetFingerCount(AllFinger))}
    /\ UNCHANGED <<heap, objs, AllFinger, nextArr, loading, nloads, published, returned,
                   snapshots, ruleLocal>>
    /\ UNCHANGED <<cacheVars, runVars, frontVars>>

\* ProcessURL: len(AllFinger) == 0, read without the lock
UnlockedLen ==
    /\ Cardinality(observed) < MaxObserved
    /\ observed' = observed \cup {Observe("len", AllFinger.len)}
    /\ UNCHANGED <<heap, objs, AllFinger, nextArr, loading, nloads, published, returned,
                   snapshots, ruleLocal>>
    /\ UNCHANGED <<cacheVars, runVars, frontVars>>

\* evaluateFingerprintWithCache on a fingerprint of a snapshot: the loop
\* variable is a copy, and its path is trimmed in the copy
EvaluateSnapshot ==
    \E s \in 1..Len(snapshots) : \E i \in 1..snapshots[s].slice.len :
      /\ ruleLocal' = [objs[heap[snapshots[s].slice.arr][i]] EXCEPT !.Path = TrimSpace(@)]
      /\ UNCHANGED <<heap, objs, AllFinger, nextArr, loading, nloads, published, returned,
                     snapshots, observed>>
      /\ UNCHANGED <<cacheVars, runVars, frontVars>>

StoreNext ==
    \/ LoadBegin
    \/ LoadReturn
    \/ TakeSnapshot
    \/ CountFingers
    \/ UnlockedLen
    \/ EvaluateSnapshot

----------------------------------------------------------------------------
(* the command line and the scan configuration *)

\* how far around each threshold the thread counts of the command line range
Near == 1

DefaultURLWorkers == 5
DefaultRuleWorkers == 200
MaxRuleWorkers == 5000
MinRuleWorkers == 200
\* the greatest --rule-threads verifyOptions leaves alone
MaxRuleThreads == 50000

Around(n) == (n - Near)..(n + Near)

\* the values of --rule-threads: around zero and around every threshold
RuleThreadInputs ==
    Around(0) \cup Around(MinRuleWorkers) \cup Around(MaxRuleWorkers) \cup Around(MaxRuleThreads)

\* the values of --threads
ThreadInputs == Around(0) \cup {DefaultURLWorkers}

\* the parsed command line.  Output and SockOutput stand for the lower-cased
\* extension of the named file, "" when none is named; HasTarget for
\* len(Target) > 0 or TargetsList # "".  The command lines that scan range
\* over every option; those with --version, --init-config or --print over
\* the options read before Execute exits
CmdInputs ==
    [Version : {FALSE}, InitConfig : {FALSE}, PrintPreset : {FALSE},
     HasTarget : BOOLEAN, Output : {"", ".txt", ".bin"},
     JSONOutput : BOOLEAN, SockOutput : {"", ".sock", ".bin"},
     Threads : ThreadInputs, RuleThreads : RuleThreadInputs]
    \cup
    {o \in [Version : BOOLEAN, InitConfig : BOOLEAN, PrintPreset : BOOLEAN,
            HasTarget : BOOLEAN, Output : {"", ".bin"},
            JSONOutput : {FALSE}, SockOutput : {"", ".bin"},
            Threads : {0, DefaultURLWorkers}, RuleThreads : {-1, DefaultRuleWorkers}] :
        o.Version \/ o.InitConfig \/ o.PrintPreset}

\* verifyOptions: its error, and the copy of the options it corrects.  The
\* options are passed by value, so the caller never sees the copy
verifyOptions(opt) ==
    IF opt.Version \/ opt.InitConfig \/ opt.PrintPreset THEN [err |-> FALSE, opt |-> opt]
    ELSE IF ~opt.HasTarget THEN [err |-> TRUE, opt |-> opt]
    ELSE IF opt.Output # "" /\ ~opt.JSONOutput /\ opt.Output \notin {".txt", ".csv"}
    THEN [err |-> TRUE, opt |-> opt]
    ELSE IF opt.SockOutput # "" /\ opt.SockOutput # ".sock" THEN [err |-> TRUE, opt |-> opt]
    ELSE [err |-> FALSE,
          opt |-> [opt EXCEPT
                     !.Threads = IF @ <= 0 THEN DefaultURLWorkers ELSE @,
                     !.RuleThreads = IF @ < 0 THEN DefaultRuleWorkers
                                     ELSE IF @ > MaxRuleThreads THEN MaxRuleThreads ELSE @]]

\* a configuration that bounds the rule workers from below only
ScanConfigNoMax(opt) ==
    LET ruleWorkerCount == IF opt.RuleThreads > 0 THEN opt.RuleThreads ELSE DefaultRuleWorkers
    IN  [URLWorkerCount    |-> IF opt.Threads <= 0 THEN DefaultURLWorkers ELSE opt.Threads,
         FingerWorkerCount |-> IF ruleWorkerCount < MinRuleWorkers THEN MinRuleWorkers
                               ELSE ruleWorkerCount,
         OutputFile        |-> opt.Output,
         SockOutputFile    |-> opt.SockOutput]

\* the ScanConfig NewRunner builds
ScanConfig(opt) ==
    LET urlWorkerCount  == IF opt.Threads <= 0 THEN DefaultURLWorkers ELSE opt.Threads
        ruleWorkerCount == IF opt.RuleThreads > 0 THEN opt.RuleThreads ELSE DefaultRuleWorkers
        atLeast         == IF ruleWorkerCount < MinRuleWorkers THEN MinRuleWorkers
                           ELSE ruleWorkerCount
    IN  [URLWorkerCount    |-> urlWorkerCount,
         FingerWorkerCount |-> IF atLeast > MaxRuleWorkers THEN MaxRuleWorkers ELSE atLeast,
         OutputFile        |-> opt.Output,
         SockOutputFile    |-> opt.SockOutput]

\* what can fail in this run: a step of Runner.Run ("output": the output
\* file cannot be opened, "header": it is opened and its header cannot be
\* written), or PrintPresetFinger ("print")
RunFailures == {"none", "targets", "output", "header", "sock", "rules", "pool", "scan", "print"}

\* how many clients connect to the socket sink
MaxConns == 2

RunIdle ==
    /\ exitCode = <<>>
    /\ runErr = "none"
    /\ deferred = <<>>
    /\ outputFile = "nil"
    /\ sockListener = "nil"
    /\ sockConnections = {}
    /\ conns = EmptyMap
    /\ summaryPrinted = FALSE
    /\ isRunning = FALSE
    /\ otherRun = "none"

CmdInit ==
    /\ cmdPc = "parsed"
    /\ cmdOptions \in CmdInputs
    /\ Config = Nil
    /\ cmdEnv \in RunFailures
    /\ RunIdle

\* no command line is being handled
CmdIdle ==
    /\ cmdPc = "none"
    /\ cmdOptions = Nil
    /\ Config = Nil
    /\ cmdEnv = "none"
    /\ RunIdle

runState == <<runErr, deferred, outputFile, sockListener, sockConnections, conns, summaryPrinted>>

CmdFrame == UNCHANGED <<cacheVars, runVars, storeVars, probeVars, serverVars, netVars, cmdOptions, cmdEnv>>

\* what only the calls and the returns of Run touch
RunFrame == UNCHANGED <<isRunning, otherRun>> /\ CmdFrame

\* a swap that succeeds whatever the flag holds
CompareAndSwapAlways(flag) == TRUE

\* r.isRunning.CompareAndSwap(false, true): whether it succeeds
CompareAndSwap(flag) == ~flag

\* Execute from NewCmdOptions to run: a rejected command line exits with 1,
\* --version and --init-config exit with 0, --print exits with 1 when
\* PrintPresetFinger fails and with 0 when it does not
NewCmdOptions ==
    /\ cmdPc = "parsed"
    /\ cmdPc' = IF verifyOptions(cmdOptions).err THEN "rejected"
                ELSE IF cmdOptions.Version \/ cmdOptions.InitConfig \/ cmdOptions.PrintPreset
                THEN "exit"
                ELSE "verified"
    /\ exitCode' = IF verifyOptions(cmdOptions).err THEN <<1>>
                   ELSE IF cmdOptions.Version \/ cmdOptions.InitConfig THEN <<0>>
                   ELSE IF cmdOptions.PrintPreset
                   THEN (IF cmdEnv = "print" THEN <<1>> ELSE <<0>>)
                   ELSE exitCode
    /\ UNCHANGED <<Config, runState>>
    /\ RunFrame

\* run: NewRunner on the options Execute holds
NewRunner ==
    /\ cmdPc = "verified"
    /\ cmdPc' = "configured"
    /\ Config' = ScanConfig(cmdOptions)
    /\ UNCHANGED <<exitCode, runState>>
    /\ RunFrame

\* Runner.Run returns err: the deferred calls are still to run
RunFails(err) ==
    /\ cmdPc' = "return"
    /\ runErr' = err

\* Runner.Run: the swap on isRunning, which returns an error when it fails
\* and else defers isRunning.Store(false); then getTargets and the check that
\* there is a target
RunGetTargets ==
    /\ cmdPc = "configured"
    /\ IF ~CompareAndSwap(isRunning)
       THEN RunFails("running") /\ UNCHANGED <<isRunning, deferred>>
       ELSE /\ isRunning' = TRUE
            /\ deferred' = <<"Store">> \o deferred
            /\ IF cmdEnv = "targets"
               THEN RunFails("targets")
               ELSE cmdPc' = "targets" /\ UNCHANGED runErr
    /\ UNCHANGED <<Config, exitCode, outputFile, sockListener, sockConnections, conns,
                   summaryPrinted, otherRun>>
    /\ CmdFrame

\* Runner.Run: output.InitOutput when an output file is configured, and the
\* deferred output.Close() once it has succeeded.  openOutputFile keeps the
\* file it opened in outputFile before it writes the header, so a header
\* that cannot be written leaves the file open with no Close deferred
RunInitOutput ==
    /\ cmdPc = "targets"
    /\ IF Config.OutputFile = ""
       THEN cmdPc' = "output" /\ UNCHANGED <<runErr, outputFile, deferred>>
       ELSE IF cmdEnv = "output"
       THEN RunFails("output") /\ UNCHANGED <<outputFile, deferred>>
       ELSE IF cmdEnv = "header"
       THEN RunFails("output") /\ outputFile' = "open" /\ UNCHANGED deferred
       ELSE /\ cmdPc' = "output"
            /\ outputFile' = "open"
            /\ deferred' = <<"Close">> \o deferred
            /\ UNCHANGED runErr
    /\ UNCHANGED <<Config, exitCode, sockListener, sockConnections, conns, summaryPrinted>>
    /\ RunFrame

\* Runner.Run: output.InitSockOutput when a socket file is configured; no
\* call is deferred here
RunInitSockOutput ==
    /\ cmdPc = "output"
    /\ IF Config.SockOutputFile = ""
       THEN cmdPc' = "sock" /\ UNCHANGED <<runErr, sockListener>>
       ELSE IF cmdEnv = "sock"
       THEN RunFails("sock") /\ UNCHANGED sockListener
       ELSE /\ cmdPc' = "sock"
            /\ sockListener' = "open"
            /\ UNCHANGED runErr
    /\ UNCHANGED <<Config, exitCode, deferred, outputFile, sockConnections, conns, summaryPrinted>>
    /\ RunFrame

\* Runner.Run: LoadFingerprints at startup
RunLoadFingerprints ==
    /\ cmdPc = "sock"
    /\ IF cmdEnv = "rules"
       THEN RunFails("rules")
       ELSE cmdPc' = "rules" /\ UNCHANGED runErr
    /\ UNCHANGED <<Config, exitCode, deferred, outputFile, sockListener, sockConnections, conns,
                   summaryPrinted>>
    /\ RunFrame

\* Runner.Run: InitGlobalRulePool, and the deferred ReleaseRulePool()
RunInitGlobalRulePool ==
    /\ cmdPc = "rules"
    /\ IF cmdEnv = "pool"
       THEN RunFails("pool") /\ UNCHANGED deferred
       ELSE /\ cmdPc' = "pool"
            /\ deferred' = <<"ReleaseRulePool">> \o deferred
            /\ UNCHANGED runErr
    /\ UNCHANGED <<Config, exitCode, outputFile, sockListener, sockConnections, conns,
                   summaryPrinted>>
    /\ RunFrame

\* Runner.Run: runScan, and after a scan that returned nil ClearAllCache and
\* printSummary
RunScanAndSummary ==
    /\ cmdPc = "pool"
    /\ IF cmdEnv = "scan"
       THEN RunFails("scan") /\ UNCHANGED summaryPrinted
       ELSE /\ cmdPc' = "return"
            /\ summaryPrinted' = TRUE
            /\ UNCHANGED runErr
    /\ UNCHANGED <<Config, exitCode, deferred, outputFile, sockListener, sockConnections, conns>>
    /\ RunFrame

\* CloseSockOutput once the listener is closed: under sockConnMutex every
\* tracked connection is closed and the set is replaced by an empty one
CloseSockOutput(listener, tracked, cs) ==
    [sockListener    |-> "closed",
     sockConnections |-> {},
     conns           |-> [c \in DOMAIN cs |->
                            IF c \in tracked THEN [cs[c] EXCEPT !.open = FALSE] ELSE cs[c]]]

\* Runner.Run has returned and a deferred call runs, the latest first.
\* output.Close() takes three steps: CloseFileOutput, then of CloseSockOutput
\* the close of the listener ("shut": closed, sockListener not yet nil) and
\* the close of the tracked connections; the goroutines of the socket sink
\* run in between
RunDeferred ==
    /\ cmdPc = "return"
    /\ deferred # <<>>
    /\ CASE Head(deferred) = "Close" ->
              /\ outputFile' = IF outputFile = "open" THEN "closed" ELSE outputFile
              /\ deferred' = <<"CloseSockOutput">> \o Tail(deferred)
              /\ UNCHANGED <<sockListener, sockConnections, conns, isRunning>>
         [] Head(deferred) = "CloseSockOutput" ->
              /\ IF sockListener = "open"
                 THEN sockListener' = "shut" /\ deferred' = <<"CloseConns">> \o Tail(deferred)
                 ELSE deferred' = Tail(deferred) /\ UNCHANGED sockListener
              /\ UNCHANGED <<outputFile, sockConnections, conns, isRunning>>
         [] Head(deferred) = "CloseConns" ->
              LET closed == CloseSockOutput(sockListener, sockConnections, conns)
              IN  /\ sockListener' = closed.sockListener
                  /\ sockConnections' = closed.sockConnections
                  /\ conns' = closed.conns
                  /\ deferred' = Tail(deferred)
                  /\ UNCHANGED <<outputFile, isRunning>>
         [] Head(deferred) = "Store" ->
              /\ isRunning' = FALSE
              /\ deferred' = Tail(deferred)
              /\ UNCHANGED <<outputFile, sockListener, sockConnections, conns>>
         [] OTHER ->
              /\ deferred' = Tail(deferred)
              /\ UNCHANGED <<outputFile, sockListener, sockConnections, conns, isRunning>>
    /\ UNCHANGED <<cmdPc, Config, exitCode, runErr, summaryPrinted, otherRun>>
    /\ CmdFrame

\* the deferred calls are through: run logs the error, Execute returns and
\* the process ends with code 0
RunReturn ==
    /\ cmdPc = "return"
    /\ deferred = <<>>
    /\ cmdPc' = "exited"
    /\ exitCode' = <<0>>
    /\ UNCHANGED <<Config, runErr, deferred, outputFile, sockListener, sockConnections, conns,
                   summaryPrinted>>
    /\ RunFrame

\* the positions of Execute at which the Runner exists and the process runs
RunnerExists == cmdPc \in {"configured", "targets", "output", "sock", "rules", "pool", "return"}

\* another goroutine calls Run on the Runner: the swap on isRunning; what its
\* Run does between the swap and its return is not followed
OtherRun ==
    /\ RunnerExists
    /\ otherRun = "none"
    /\ IF ~CompareAndSwap(isRunning)
       THEN otherRun' = "rejected" /\ UNCHANGED isRunning
       ELSE otherRun' = "running" /\ isRunning' = TRUE
    /\ UNCHANGED <<cmdPc, Config, exitCode, runState>>
    /\ CmdFrame

\* that Run returns: the deferred isRunning.Store(false)
OtherReturn ==
    /\ cmdPc # "exited"
    /\ otherRun = "running"
    /\ otherRun' = "returned"
    /\ isRunning' = FALSE
    /\ UNCHANGED <<cmdPc, Config, exitCode, runState>>
    /\ CmdFrame

\* the accept goroutine of InitSockOutput: a client connects
Accept(c) ==
    /\ cmdPc # "exited"
    /\ sockListener = "open"
    /\ c \notin DOMAIN conns
    /\ conns' = Put(conns, c, [open |-> TRUE, pc |-> "accepted"])
    /\ UNCHANGED <<cmdPc, Config, exitCode, runErr, deferred, outputFile, sockListener,
                   sockConnections, summaryPrinted>>
    /\ RunFrame

\* handleConnection begins: the connection is tracked
handleConnection(c) ==
    /\ cmdPc # "exited"
    /\ c \in DOMAIN conns
    /\ conns[c].pc = "accepted"
    /\ conns' = [conns EXCEPT ![c].pc = "reading"]
    /\ sockConnections' = sockConnections \cup {c}
    /\ UNCHANGED <<cmdPc, Config, exitCode, runErr, deferred, outputFile, sockListener,
                   summaryPrinted>>
    /\ RunFrame

\* handleConnection ends on a read error (the client left, or the connection
\* was closed): the connection is dropped from the set and closed
handleConnectionReturn(c) ==
    /\ cmdPc # "exited"
    /\ c \in DOMAIN conns
    /\ conns[c].pc = "reading"
    /\ conns' = [conns EXCEPT ![c] = [open |-> FALSE, pc |-> "gone"]]
    /\ sockConnections' = sockConnections \ {c}
    /\ UNCHANGED <<cmdPc, Config, exitCode, runErr, deferred, outputFile, sockListener,
                   summaryPrinted>>
    /\ RunFrame

----------------------------------------------------------------------------
(* the server information of a response; strings are sequences of characters *)

\* the longest header the model enumerates over ServerAlphabet
MaxServerLen == 4

ServerAlphabet == {"n", "/", "1", ".", "(", ")", " "}

IsDigit(c) == c \in {"0", "1", "2", "3", "4", "5", "6", "7", "8", "9"}

\* strings.HasPrefix
HasPrefix(s, prefix) == Len(s) >= Len(prefix) /\ SubSeq(s, 1, Len(prefix)) = prefix

\* strings.Contains, for a substring that is not empty
Contains(s, substr) ==
    \E i \in 1..(Len(s) - Len(substr) + 1) : SubSeq(s, i, i + Len(substr) - 1) = substr

RECURSIVE ReplaceAll(_, _, _)
\* strings.ReplaceAll, and ReplaceAllString of a quoted pattern
ReplaceAll(s, old, new) ==
    IF s = <<>> THEN <<>>
    ELSE IF HasPrefix(s, old)
    THEN new \o ReplaceAll(SubSeq(s, Len(old) + 1, Len(s)), old, new)
    ELSE <<s[1]>> \o ReplaceAll(Tail(s), old, new)

RECURSIVE DigitsEnd(_, _)
\* \d+ at i, greedy: where the run of digits ends (i - 1 when s[i] is no digit)
DigitsEnd(s, i) == IF i <= Len(s) /\ IsDigit(s[i]) THEN DigitsEnd(s, i + 1) ELSE i - 1

RECURSIVE DottedEnd(_, _, _)
\* (\.\d+) after position e, greedy and at most n times: where it ends
DottedEnd(s, e, n) ==
    IF n > 0 /\ e + 2 <= Len(s) /\ s[e + 1] = "." /\ IsDigit(s[e + 2])
    THEN DottedEnd(s, DigitsEnd(s, e + 2), n - 1)
    ELSE e

\* \d+\.\d+ matches at j
VersionAt(s, j) ==
    /\ j <= Len(s) /\ IsDigit(s[j])
    /\ DottedEnd(s, DigitsEnd(s, j), 1) > DigitsEnd(s, j)

\* where \d+\.\d+ followed by at most n more (\.\d+) ends when it begins at j
VersionEnd(s, j, n) == DottedEnd(s, DottedEnd(s, DigitsEnd(s, j), 1), n)

\* ExtractVersion: the version after a slash, else the one inside
\* parentheses, else the first one anywhere
ExtractVersion(server) ==
    LET slashes == {i \in 1..Len(server) - 1 : server[i] = "/" /\ IsDigit(server[i + 1])}
        opens   == {i \in 1..Len(server) : server[i] = "("}
        inside  == {j \in 1..Len(server) :
                      /\ opens # {} /\ j > Min(opens)
                      /\ VersionAt(server, j)
                      /\ \E k \in 1..Len(server) :
                           k > VersionEnd(server, j, Len(server)) /\ server[k] = ")"}
        any     == {j \in 1..Len(server) : VersionAt(server, j)}
    IN  IF slashes # {}
        THEN SubSeq(server, Min(slashes) + 1,
                    DottedEnd(server, DigitsEnd(server, Min(slashes) + 1), Len(server)))
        ELSE IF inside # {}
        THEN SubSeq(server, Min(inside), VersionEnd(server, Min(inside), Len(server)))
        ELSE IF any # {}
        THEN SubSeq(server, Min(any), VersionEnd(server, Min(any), 1))
        ELSE <<>>

RECURSIVE RemoveParentheses(_)
\* ReplaceAllString of \([^)]*\) by "": every "(" up to the next ")"
RemoveParentheses(s) ==
    IF s = <<>> THEN <<>>
    ELSE IF s[1] = "(" /\ \E k \in 2..Len(s) : s[k] = ")"
    THEN RemoveParentheses(SubSeq(s, Min({k \in 2..Len(s) : s[k] = ")"}) + 1, Len(s)))
    ELSE <<s[1]>> \o RemoveParentheses(Tail(s))

poweredBy == <<"p", "o", "w", "e", "r", "e", "d", " ", "b", "y", " ">>
runningOn == <<"r", "u", "n", "n", "i", "n", "g", " ", "o", "n", " ">>

\* CleanServerString
CleanServerString(server) ==
    ReplaceAll(ReplaceAll(TrimSpace(RemoveParentheses(server)), poweredBy, <<>>), runningOn, <<>>)

\* ExtractServerInfo on the value of the Server header: the cleaned server
\* and the version
ExtractServerInfo(serverValue) ==
    IF serverValue = <<>> THEN [server |-> <<>>, version |-> <<>>]
    ELSE LET version  == ExtractVersion(serverValue)
             cleaned  == CleanServerString(serverValue)
             noSlash  == IF version # <<>>
                         THEN ReplaceAll(cleaned, <<"/">> \o version, <<>>) ELSE cleaned
             combined == IF /\ version # <<>>
                            /\ ~Contains(noSlash, version)
                            /\ Contains(serverValue, <<"/">> \o version)
                         THEN ReplaceAll(ReplaceAll(serverValue,
                                                    <<" ", "(">> \o version \o <<")">>, <<>>),
                                         <<"(">> \o version \o <<")">>, <<>>)
                         ELSE noSlash
         IN  [server |-> TrimSpace(combined), version |-> version]

\* types.NewServerInfo
NewServerInfo(originalServer, serverType, version) ==
    [OriginalServer |-> originalServer, ServerType |-> serverType, Version |-> version]

\* "nginx/1.18.0", "Apache/2.4.41 (Ubuntu)", "lighttpd (1.4.55)"
nginxHeader == <<"n", "g", "i", "n", "x", "/", "1", ".", "1", "8", ".", "0">>
apacheHeader == <<"A", "p", "a", "c", "h", "e", "/", "2", ".", "4", ".", "4", "1", " ",
                  "(", "U", "b", "u", "n", "t", "u", ")">>
lighttpdHeader == <<"l", "i", "g", "h", "t", "t", "p", "d", " ", "(", "1", ".", "4", ".", "5",
                    "5", ")">>

RECURSIVE StringsUpTo(_)
\* the strings over ServerAlphabet of at most n characters
StringsUpTo(n) ==
    IF n = 0 THEN {<<>>}
    ELSE StringsUpTo(n - 1)
           \cup {Append(s, c) : s \in {t \in StringsUpTo(n - 1) : Len(t) = n - 1},
                                c \in ServerAlphabet}

ServerHeaders == StringsUpTo(MaxServerLen) \cup {nginxHeader, apacheHeader, lighttpdHeader}

\* no response is being looked at
ServerIdle ==
    /\ serverHeader = <<>>
    /\ serverInfo = Nil

ServerInit ==
    /\ serverHeader \in ServerHeaders
    /\ serverInfo = Nil

\* GetServerInfoFromResponse on a response that has the header
GetServerInfoFromResponse ==
    /\ serverInfo = Nil
    /\ serverInfo' = IF serverHeader = <<>> THEN NewServerInfo(<<>>, <<>>, <<>>)
                     ELSE NewServerInfo(serverHeader,
                                        ExtractServerInfo(serverHeader).server,
                                        ExtractServerInfo(serverHeader).version)
    /\ UNCHANGED <<serverHeader, cmdVars, probeVars, netVars, cacheVars, runVars, storeVars>>

----------------------------------------------------------------------------
(* the scheme of a host: CheckProtocol; strings are sequences of tokens *)

HttpPrefix == <<"http://">>
HttpsPrefix == <<"https://">>

\* u.Port() of url.Parse on a URL of the model: the token after the first colon
Port(url) ==
    LET idx == {i \in 1..Len(url) - 1 : url[i] = ":"}
    IN  IF idx = {} THEN "" ELSE url[Min(idx) + 1]

\* the scheme a URL of the model begins with
SchemeOf(url) == IF Len(url) > 0 /\ url[1] = "https://" THEN "https" ELSE "http"

\* CheckProtocolGet: one HEAD request to target, which fails or tells whether
\* the response came over TLS; the request is recorded in probes
CheckProtocolGet(target, net) ==
    IF net[SchemeOf(target)] = "fail" THEN [res |-> "", err |-> TRUE]
    ELSE IF net[SchemeOf(target)] = "tls" THEN [res |-> "https", err |-> FALSE]
    ELSE [res |-> "http", err |-> FALSE]

\* checkAndReturnProtocol: the URL, the error flag and the HEAD requests sent
checkAndReturnProtocol(url, net) ==
    IF Len(url) > 0 /\ url[1] = "https://"
    THEN [url |-> url, err |-> FALSE, probes |-> <<>>]
    ELSE IF url = <<>>
    THEN [url |-> <<>>, err |-> TRUE, probes |-> <<>>]
    ELSE LET get == CheckProtocolGet(url, net)
         IN  IF get.err THEN [url |-> <<>>, err |-> TRUE, probes |-> <<url>>]
             ELSE IF get.res = "https"
             THEN IF url[1] = "http://"
                  THEN [url |-> HttpsPrefix \o Tail(url), err |-> FALSE, probes |-> <<url>>]
                  ELSE [url |-> HttpsPrefix \o url, err |-> FALSE, probes |-> <<url>>]
             ELSE IF url[1] # "http://"
             THEN [url |-> HttpPrefix \o url, err |-> FALSE, probes |-> <<url>>]
             ELSE [url |-> url, err |-> FALSE, probes |-> <<url>>]

\* CheckProtocol on a host url.Parse accepts
CheckProtocol(host, net) ==
    IF TrimSpace(host) = <<>>
    THEN [url |-> <<>>, err |-> TRUE, probes |-> <<>>]
    ELSE IF HasScheme(host)
    THEN [url |-> host, err |-> FALSE, probes |-> <<>>]
    ELSE IF Port(HttpPrefix \o host) = "80"
    THEN checkAndReturnProtocol(HttpPrefix \o host, net)
    ELSE IF Port(HttpPrefix \o host) = "443"
    THEN checkAndReturnProtocol(HttpsPrefix \o host, net)
    ELSE LET first == checkAndReturnProtocol(HttpsPrefix \o host, net)
             second == checkAndReturnProtocol(HttpPrefix \o host, net)
         IN  IF ~first.err THEN first
             ELSE [second EXCEPT !.probes = first.probes \o second.probes]

\* GetBaseInfo: the URL it requests and reports.  The target becomes what
\* CheckProtocol returns unless that is an error or empty, and is given the
\* https scheme when it still has none
BaseUrl(target, net) ==
    LET checked == CheckProtocol(target, net)
        url     == IF ~checked.err /\ checked.url # <<>> THEN checked.url ELSE target
    IN  IF HasScheme(url) THEN url ELSE HttpsPrefix \o url

\* the HEAD requests CheckProtocol sends on behalf of GetBaseInfo
HeadRequests(target, net) == Len(CheckProtocol(target, net).probes)

\* the hosts CheckProtocol is called with: blank, or a name with or without
\* a scheme, a port and a path
ProtoHosts ==
    {<<>>, <<" ">>} \cup
    {scheme \o <<"h">> \o port \o path :
        scheme \in {<<>>, HttpPrefix, HttpsPrefix},
        port \in {<<>>, <<":", "80">>, <<":", "443">>, <<":", "8080">>},
        path \in {<<>>, <<"/">>}}

\* how a host answers: over https a HEAD request fails or is answered over
\* TLS, over http it fails or is answered in the clear
ProtoNets == [https : {"fail", "tls"}, http : {"fail", "plain"}]

\* a host that answers on both schemes
DefaultNet == [https |-> "tls", http |-> "plain"]

ProtoIdle ==
    /\ protoHost = <<>>
    /\ protoNet = [https |-> "fail", http |-> "fail"]
    /\ headProbes = <<>>
    /\ protoResult = Nil

ProtoInit ==
    /\ protoHost \in ProtoHosts
    /\ protoNet \in ProtoNets
    /\ headProbes = <<>>
    /\ protoResult = Nil

\* one call of CheckProtocol
CheckProtocolCall ==
    /\ protoResult = Nil
    /\ headProbes' = CheckProtocol(protoHost, protoNet).probes
    /\ protoResult' = [url |-> CheckProtocol(protoHost, protoNet).url,
                       err |-> CheckProtocol(protoHost, protoNet).err]
    /\ UNCHANGED <<protoHost, protoNet, clientVars, cmdVars, probeVars, serverVars,
                   cacheVars, runVars, storeVars>>

----------------------------------------------------------------------------
(* the TCP/UDP client: Send, Receive and their retry loops *)

\* DefaultMaxRetries
DefaultMaxRetries == 3
\* the largest MaxRetries a configuration of the model sets
MaxConfRetries == 2

\* c.maxRetries()
maxRetries(conf) == IF conf.MaxRetries # 0 THEN conf.MaxRetries ELSE DefaultMaxRetries

\* what c.conn.Read can do: deliver bytes, deliver none without an error,
\* run into the deadline, or fail otherwise (the peer closed the connection)
ReadOutcomes == {"data", "empty", "timeout", "eof"}
\* what c.conn.Write can do
WriteOutcomes == {"ok", "timeout", "reset"}

\* the bytes the peer sends
PeerBytes == <<"b">>

\* what a read leaves in buf[:n]
ReadBytes(outcome) == IF outcome = "data" THEN PeerBytes ELSE <<>>

\* a client as NewClient returns it: connected, with the configuration's
\* MaxRetries (zero stands for the default)
ClientInit ==
    /\ clientConf \in [MaxRetries : 0..MaxConfRetries]
    /\ clientConn = 1
    /\ clientCall = Nil
    /\ dials = 0
    /\ sleeps = 0

\* no client exists
ClientIdle ==
    /\ clientConf = [MaxRetries |-> 0]
    /\ clientConn = 0
    /\ clientCall = Nil
    /\ dials = 0
    /\ sleeps = 0

NetIdle == ProtoIdle /\ ClientIdle

ClientFrame == UNCHANGED <<clientConf, protoVars, cmdVars, probeVars, serverVars,
                           cacheVars, runVars, storeVars>>

\* the record of a call: its position, the index of the retry loop, the
\* outcomes of its reads or writes so far, and what it returned
Call(op, pc, i, io, data, err) ==
    [op |-> op, pc |-> pc, i |-> i, io |-> io, data |-> data, err |-> err]

\* Client.Send up to its return or its call of retryWrite
Send(outcome) ==
    /\ clientCall = Nil
    /\ clientConn # 0
    /\ clientCall' = IF outcome = "ok"
                     THEN Call("Send", "returned", 0, <<outcome>>, <<>>, "none")
                     ELSE IF outcome = "timeout"
                     THEN Call("Send", "retry", 0, <<outcome>>, <<>>, "none")
                     ELSE Call("Send", "returned", 0, <<outcome>>, <<>>, "write")
    /\ UNCHANGED <<clientConn, dials, sleeps>>
    /\ ClientFrame

\* Client.Receive up to its return or its call of retryRead
Receive(outcome) ==
    /\ clientCall = Nil
    /\ clientConn # 0
    /\ clientCall' = IF outcome \in {"data", "empty"}
                     THEN Call("Receive", "returned", 0, <<outcome>>, ReadBytes(outcome), "none")
                     ELSE Call("Receive", "retry", 0, <<outcome>>, <<>>, "none")
    /\ UNCHANGED <<clientConn, dials, sleeps>>
    /\ ClientFrame

\* one round of the loop of retryWrite, or its return after the last round
retryWrite(dialed, outcome) ==
    /\ clientCall # Nil
    /\ clientCall.op = "Send"
    /\ clientCall.pc = "retry"
    /\ IF clientCall.i < maxRetries(clientConf)
       THEN /\ sleeps' = sleeps + 1
            /\ dials' = dials + 1
            /\ clientConn' = IF dialed THEN clientConn + 1 ELSE clientConn
            /\ clientCall' =
                 IF dialed /\ outcome = "ok"
                 THEN [clientCall EXCEPT !.pc = "returned", !.io = Append(@, outcome)]
                 ELSE IF dialed
                 THEN [clientCall EXCEPT !.i = @ + 1, !.io = Append(@, outcome)]
                 ELSE [clientCall EXCEPT !.i = @ + 1]
       ELSE /\ clientCall' = [clientCall EXCEPT !.pc = "returned", !.err = "retries"]
            /\ UNCHANGED <<clientConn, dials, sleeps>>
    /\ ClientFrame

\* one round of the loop of retryRead, or its return after the last round;
\* Receive returns nil and the error of retryRead
retryRead(dialed, outcome) ==
    /\ clientCall # Nil
    /\ clientCall.op = "Receive"
    /\ clientCall.pc = "retry"
    /\ IF clientCall.i < maxRetries(clientConf)
       THEN /\ sleeps' = sleeps + 1
            /\ dials' = dials + 1
            /\ clientConn' = IF dialed THEN clientConn + 1 ELSE clientConn
            /\ clientCall' =
                 IF dialed /\ outcome = "data"
                 THEN [clientCall EXCEPT !.pc = "returned", !.io = Append(@, outcome)]
                 ELSE IF dialed
                 THEN [clientCall EXCEPT !.i = @ + 1, !.io = Append(@, outcome)]
                 ELSE [clientCall EXCEPT !.i = @ + 1]
       ELSE /\ clientCall' = [clientCall EXCEPT !.pc = "returned", !.err = "retries"]
            /\ UNCHANGED <<clientConn, dials, sleeps>>
    /\ ClientFrame

----------------------------------------------------------------------------
(* the probe of one target: redirects, base information, one rule *)

\* the longest redirect chain a server of the model has
MaxChain == 6

maxRedirects == 5

\* the hosts a redirect chain leads through
HopHosts == <<"b", "c", "d", "e", "f", "g", "h", "i", "j", "k">>

\* the URL n redirects after start
HopUrl(start, n) == IF n = 0 THEN start ELSE <<"http://", HopHosts[n]>>

\* the path of a URL that has a scheme and a host, with or without a port
PathOf(url) ==
    IF Len(url) >= 4 /\ url[3] = ":" THEN SubSeq(url, 5, Len(url)) ELSE SubSeq(url, 3, Len(url))

\* the server's answer to the request call.hop redirects into the chain: 302
\* to the next URL while the chain lasts, 200 at its end; page tells whether
\* the answer is an HTML page, and Request is the request that was answered
Answer(st, call) ==
    [id |-> call.hop, Body |-> st.body.len, enc |-> st.body.enc,
     status |-> IF call.hop < st.chain THEN 302 ELSE 200,
     page |-> st.page,
     Request |-> [Method |-> call.method, Path |-> PathOf(HopUrl(call.start, call.hop))]]

\* formatPath of finger.SendRequest
formatPath(path) ==
    LET trimmed == TrimSpace(path)
        caret   == IF HasPrefix(trimmed, <<"^">>) THEN <<"/">> \o Tail(trimmed) ELSE trimmed
        slashed == IF HasPrefix(caret, <<"/">>) THEN caret ELSE <<"/">> \o caret
    IN  ReplaceAll(ReplaceAll(slashed, <<" ">>, <<"%", "2", "0">>), <<"#">>, <<"%", "2", "3">>)

\* the pages a server sends: not HTML; HTML with its icon inline, in a data
\* URL; HTML with an icon that one request fetches; HTML with an icon whose
\* request gives no hash
Pages == {"text", "inline", "icon", "noicon"}

\* NewGetIconHash(iconUrl, proxy).Run(): the requests it sends and the hash it
\* returns.  A data URL is hashed without a request; any other icon URL is
\* requested, and when that gives the hash 0 the default /favicon.ico of the
\* host is requested as well
GetIconHashRun(page) ==
    CASE page = "inline" -> [requests |-> 0, IconHash |-> "hash"]
      [] page = "icon"   -> [requests |-> 1, IconHash |-> "hash"]
      [] OTHER           -> [requests |-> 2, IconHash |-> "0"]

\* the favicon branch of buildProtoResponse: taken only for the answer to a
\* GET whose path is empty or "/" and whose Content-Type is text/html
Favicon(method, path, page) ==
    IF method = "GET" /\ path \in {<<>>, <<"/">>} /\ page # "text"
    THEN GetIconHashRun(page)
    ELSE [requests |-> 0, IconHash |-> ""]

\* retries of GetTitle
retries == 3

RECURSIVE GetTitleLoop(_, _)
\* GetTitle, the loop that fetches the i18n script of the page, from its
\* attempt i on: every attempt sends one GET; an attempt that fails (fails of
\* them do, in a row) is followed by the next, any answer ends the loop
GetTitleLoop(i, fails) ==
    IF i >= retries THEN 0
    ELSE IF fails > 0 THEN 1 + GetTitleLoop(i + 1, fails - 1)
    ELSE 1

\* GetTitle: the GET requests it sends.  script is Nil for a body that names
\* no script whose source ends in .js and contains i18n
GetTitleRequests(script) == IF script = Nil THEN 0 ELSE GetTitleLoop(0, script.fails)

\* the scripts a page names: none, or an i18n script and how many attempts to
\* fetch it fail
Scripts == {Nil} \cup {[fails |-> n] : n \in 0..retries}

\* the longest body a server of the model sends, in units of 256 KiB
MaxBody == 3

\* MaxDefaultBody and maxDefaultBody (512 KiB), in units of 256 KiB
MaxDefaultBody == 2

\* io.ReadAll(io.LimitReader(resp.Body, n)): the length read
LimitReader(len, n) == IF len > n THEN n ELSE len

\* Str2UTF8, the length of its result: valid UTF-8 is returned as it is; any
\* other text is decoded as GB18030, where a text of two-byte characters
\* (enc = "gbk") becomes one of three-byte characters
Str2UTF8(len, enc) ==
    IF len = 0 \/ enc = "utf8" THEN len ELSE (len * 3) \div 2

\* buildProtoResponse: the proto.Response of resp with the body utf8RespBody
\* and the hash of the favicon
buildProtoResponse(resp, utf8RespBody) ==
    [id |-> resp.id, Body |-> utf8RespBody, status |-> resp.status,
     IconHash |-> Favicon(resp.Request.Method, resp.Request.Path, resp.page).IconHash]

\* the favicon requests sent while buildProtoResponse builds the response
IconRequests(resp) == Favicon(resp.Request.Method, resp.Request.Path, resp.page).requests

\* the function createRedirectPolicy returns, on a redirect with len(via) = via
createRedirectPolicy(followRedirects, via) ==
    IF ~followRedirects THEN "ErrUseLastResponse"
    ELSE IF via >= maxRedirects THEN "limit"
    ELSE "follow"

\* no request is in flight
NoCall == [pc |-> "none", method |-> "", followRedirects |-> FALSE, start |-> <<>>, hop |-> 0,
           via |-> 0, resp |-> Nil, err |-> "none"]

\* client.Do as SendRequestHttp starts it
SendRequestHttp(method, urlStr, followRedirects) ==
    [NoCall EXCEPT !.pc = "send", !.method = method, !.followRedirects = followRedirects,
                   !.start = urlStr]

\* resp.Request.URL = url.Parse(urlStr): the request of the response is made
\* to name the URL asked for, whatever request of a redirect chain was answered
Requested(resp, urlStr) == [resp EXCEPT !.Request.Path = PathOf(urlStr)]

\* GetBaseInfo once its request has returned: Url is the URL it requested,
\* the target as CheckProtocol left it, and the request of the response is
\* made to name it.
\* GetTitle reads the whole body and puts it back; when NewWappalyzer
\* succeeds (wappOk) the body is read again through the limit, kept as
\* BodyBytes and put back; when it fails the response keeps its whole body
\* and BodyBytes stays nil
GetBaseInfo(target, net, call, wappOk) ==
    IF call.err # "none"
    THEN [Url |-> BaseUrl(target, net), StatusCode |-> 0, Response |-> Nil,
          HasBodyBytes |-> FALSE, BodyBytes |-> 0, err |-> TRUE]
    ELSE LET data == LimitReader(call.resp.Body, MaxDefaultBody)
         IN  [Url |-> BaseUrl(target, net), StatusCode |-> call.resp.status,
              Response |-> Requested(IF wappOk THEN [call.resp EXCEPT !.Body = data]
                                     ELSE call.resp, BaseUrl(target, net)),
              HasBodyBytes |-> wappOk, BodyBytes |-> IF wappOk THEN data ELSE 0,
              err |-> FALSE]

\* initializeCache: the proto.Response of the base response.  The body is
\* BodyBytes, or without them everything io.ReadAll finds in the response
initializeCache(base) ==
    LET respBody == IF base.HasBodyBytes THEN base.BodyBytes ELSE base.Response.Body
    IN  buildProtoResponse(base.Response, Str2UTF8(respBody, base.Response.enc))

\* finger.SendRequest once its request for NewUrlStr has returned: the
\* request of the response is made to name NewUrlStr, and the proto.Response
\* is built of the body read through the limit
SendRequest(NewUrlStr, resp) ==
    buildProtoResponse(Requested(resp, NewUrlStr),
                       Str2UTF8(LimitReader(resp.Body, MaxDefaultBody), resp.enc))

\* the TargetResult ProcessURL starts with, and the one it holds once
\* GetBaseInfo has succeeded
NewTargetResult(target) == [URL |-> target, StatusCode |-> 0]

UpdatedTargetResult(base) == [URL |-> base.Url, StatusCode |-> base.StatusCode]

\* the rule of the probed target
StatusRule(followRedirects) ==
    RuleOf("r0", RuleRequest("GET", <<>>, FALSE, followRedirects), "status200")

\* a rule that asks for a page below the root, and one whose expression has
\* a value that is no boolean
PathRule == RuleOf("r0", RuleRequest("GET", <<"/", "x">>, FALSE, FALSE), "status200")

NonBoolRule == RuleOf("r0", PlainRequest, "nonbool")

\* the targets probed: with a scheme, bare, and with a trailing slash
ProbeTargets == {<<"http://", "a">>, <<"a">>, <<"https://", "a", "/">>}

\* a bare host with the port 80
hA80 == <<"a", ":", "80">>

\* the bodies a server sends: their length and whether the text is UTF-8
Bodies == [len : 0..MaxBody, enc : {"utf8", "gbk"}]

\* the servers: how many redirects lead from the target to its final page,
\* the body of their answers, whether NewWappalyzer succeeds, the kind of
\* page they send, how the host answers a HEAD request and the i18n script
\* the page names; active is the mode of the scan.  The rule evaluated is the
\* status rule; on one target the rule with a path, in either mode, and the
\* rule that panics; the host with a port answers HEAD requests in every way
\* and sends pages with and without a script
Sites ==
    [target : ProbeTargets, chain : 0..MaxChain, rule : {StatusRule(f) : f \in BOOLEAN},
     body : Bodies, wappOk : BOOLEAN, page : {"text"}, net : {DefaultNet}, script : {Nil},
     active : {FALSE}]
    \cup [target : ProbeTargets, chain : {0, 1}, rule : {StatusRule(f) : f \in BOOLEAN},
          body : {[len |-> 1, enc |-> "utf8"]}, wappOk : {TRUE}, page : Pages,
          net : {DefaultNet}, script : {Nil}, active : {FALSE}]
    \cup [target : {<<"http://", "a">>}, chain : {0, 1}, rule : {PathRule, NonBoolRule},
          body : {[len |-> 1, enc |-> "utf8"]}, wappOk : {TRUE}, page : {"text", "icon"},
          net : {DefaultNet}, script : {Nil}, active : BOOLEAN]
    \cup [target : {hA80}, chain : {0, 1}, rule : {StatusRule(FALSE)},
          body : {[len |-> 1, enc |-> "utf8"]}, wappOk : {TRUE}, page : {"text"},
          net : ProtoNets, script : Scripts, active : {FALSE}]

\* no target is being probed
ProbeIdle ==
    /\ site = Nil
    /\ httpClient = NoCall
    /\ probePc = "none"
    /\ baseInfoResp = Nil
    /\ targetResult = Nil
    /\ matched = Nil

ProbeInit ==
    /\ site \in Sites
    /\ httpClient = NoCall
    /\ probePc = "init"
    /\ baseInfoResp = Nil
    /\ targetResult = Nil
    /\ matched = Nil

\* what no step of the probe touches
ProbeFrame ==
    /\ lastOp' = "other"
    /\ UNCHANGED <<cmdVars, serverVars, netVars, runVars, storeVars, now, nticks>>

\* the request of rule evaluation: finger.SendRequest asks for the target with
\* the formatted path of the rule, and with the rule's flag negated
RuleRequestSent(target, rule) ==
    SendRequestHttp(rule.Request.Method, ParseTarget(target, formatPath(rule.Request.Path)),
                    ~rule.Request.FollowRedirects)

\* ProcessURL up to the request of GetBaseInfo, which follows redirects:
\* CheckProtocol has sent its HEAD requests
ProcessURLSend ==
    /\ probePc = "init"
    /\ probePc' = "base"
    /\ targetResult' = NewTargetResult(site.target)
    /\ baseRequests' = [baseRequests EXCEPT !.head = @ + HeadRequests(site.target, site.net)]
    /\ httpClient' = SendRequestHttp("GET", BaseUrl(site.target, site.net), TRUE)
    /\ UNCHANGED <<site, baseInfoResp, matched, cache, written, pendingDel, calls,
                   iconRequests>>
    /\ ProbeFrame

\* client.Do sends the request in hand and reads the answer
ClientSend ==
    /\ httpClient.pc = "send"
    /\ LET resp == Answer(site, httpClient)
       IN  httpClient' = [httpClient EXCEPT !.via = @ + 1, !.resp = resp,
                                            !.pc = IF resp.status = 302 THEN "redirect"
                                                   ELSE "done"]
    /\ UNCHANGED <<site, probePc, baseInfoResp, targetResult, matched, cache, written,
                   pendingDel, calls, iconRequests, baseRequests>>
    /\ ProbeFrame

\* client.Do on a redirect: CheckRedirect decides with the requests made so far
ClientRedirect ==
    /\ httpClient.pc = "redirect"
    /\ LET policy == createRedirectPolicy(httpClient.followRedirects, httpClient.via)
       IN  httpClient' =
             CASE policy = "follow" -> [httpClient EXCEPT !.hop = @ + 1, !.pc = "send"]
               [] policy = "ErrUseLastResponse" -> [httpClient EXCEPT !.pc = "done"]
               [] OTHER -> [httpClient EXCEPT !.pc = "done", !.err = "limit"]
    /\ UNCHANGED <<site, probePc, baseInfoResp, targetResult, matched, cache, written,
                   pendingDel, calls, iconRequests, baseRequests>>
    /\ ProbeFrame

\* ProcessURL once GetBaseInfo has returned, GetTitle having sent the requests
\* for the i18n script of the page: on an error it returns the
\* TargetResult as it is; else it copies the base information, builds the
\* proto.Response of the base response (with the favicon requests of an HTML
\* page) and calls UpdateTargetCache, which builds its entry and reads the
\* clock.  Nothing before that clock read touches what other goroutines see
ProcessURLUpdate ==
    /\ probePc = "base"
    /\ httpClient.pc = "done"
    /\ LET base == GetBaseInfo(site.target, site.net, httpClient, site.wappOk)
           lastResponse == initializeCache(base)
           call == NewCacheRequest(GetReq, lastResponse, base.Url, FALSE, now)
       IN  /\ baseInfoResp' = base
           /\ IF base.err
              THEN /\ probePc' = "done"
                   /\ UNCHANGED <<targetResult, calls, iconRequests, baseRequests>>
              ELSE /\ probePc' = "store"
                   /\ targetResult' = UpdatedTargetResult(base)
                   /\ baseRequests' = [baseRequests EXCEPT
                                         !.title = @ + GetTitleRequests(site.script)]
                   /\ iconRequests' = iconRequests + IconRequests(base.Response)
                   /\ calls' = Put(calls, "probe", call)
    /\ httpClient' = NoCall
    /\ UNCHANGED <<site, matched, pendingDel, cache, written>>
    /\ ProbeFrame

\* UpdateTargetCache of the base response, under the lock: the eviction and
\* the store
ProcessURLStore ==
    /\ probePc = "store"
    /\ \E victim \in EvictChoices(cache, now) :
         /\ cache' = UpdateTargetCache(cache, calls["probe"], victim)
         /\ written' = WrittenAfter(written, calls["probe"], victim)
    /\ calls' = Remove(calls, {"probe"})
    /\ probePc' = "rule"
    /\ UNCHANGED <<site, httpClient, baseInfoResp, targetResult, matched, pendingDel,
                   iconRequests, baseRequests>>
    /\ ProbeFrame

\* evaluateFingerprintWithCache on the rule, up to the RUnlock of
\* ShouldUseCache: in the passive mode a rule with a path, a method other than
\* GET or headers is bound to false at once; else, when no entry is found,
\* SendRequest sends the request
RuleSend ==
    /\ probePc = "rule"
    /\ LET path   == TrimSpace(site.rule.Request.Path)
           urlStr == ParseTarget(targetResult.URL, path)
           found  == ShouldUseCacheLookup(cache, site.rule.Request, urlStr)
       IN  IF ~site.active /\ Gated(site.rule.Request, path)
           THEN /\ matched' = [val |-> FALSE, src |-> "gated", body |-> 0]
                /\ probePc' = "ruled"
                /\ UNCHANGED <<httpClient, calls>>
           ELSE IF found.entry = Nil
           THEN /\ httpClient' = RuleRequestSent(targetResult.URL, site.rule)
                /\ probePc' = "probe"
                /\ UNCHANGED <<calls, matched>>
           ELSE /\ calls' = Put(calls, "probe", found)
                /\ probePc' = "age"
                /\ UNCHANGED <<httpClient, matched>>
    /\ UNCHANGED <<site, baseInfoResp, targetResult, cache, written, pendingDel,
                   iconRequests, baseRequests>>
    /\ ProbeFrame

\* the rule expression on the response in hand: a CEL error gives false, and a
\* value that is no boolean panics in result.Value().(bool), so that nothing
\* is bound and the evaluation of the fingerprint does not return
RuleEvaluated(rule, resp, src) ==
    LET ev == Evaluate(rule.Expression, resp, EmptyMap)
    IN  IF ev.kind = "nonbool"
        THEN [panic |-> TRUE, src |-> src, body |-> resp.Body]
        ELSE [val |-> ev.kind = "bool" /\ ev.val, src |-> src, body |-> resp.Body]

\* ShouldUseCache after RUnlock, and what follows: a hit is evaluated at once;
\* an expired entry starts its deletion goroutine and SendRequest sends the
\* request
RuleAge ==
    /\ probePc = "age"
    /\ LET r == ShouldUseCacheAge(calls["probe"], now)
       IN  IF r.hit
           THEN /\ matched' = RuleEvaluated(site.rule, r.Response, "cache")
                /\ probePc' = "ruled"
                /\ UNCHANGED <<httpClient, pendingDel>>
           ELSE /\ httpClient' = RuleRequestSent(targetResult.URL, site.rule)
                /\ probePc' = "probe"
                /\ pendingDel' = Spawn(pendingDel, r.spawn)
                /\ UNCHANGED matched
    /\ calls' = Remove(calls, {"probe"})
    /\ UNCHANGED <<site, baseInfoResp, targetResult, cache, written, iconRequests, baseRequests>>
    /\ ProbeFrame

\* SendRequest returns: an error binds false; else the proto.Response is
\* built (with the favicon requests of an HTML root page), and for a rule
\* without headers UpdateTargetCache builds its entry and reads the clock;
\* a rule with headers is evaluated at once
RuleReturn ==
    /\ probePc = "probe"
    /\ httpClient.pc = "done"
    /\ LET urlStr == ParseTarget(targetResult.URL, TrimSpace(site.rule.Request.Path))
           req    == [Method |-> site.rule.Request.Method, Body |-> site.rule.Request.Body]
           resp   == SendRequest(httpClient.start, httpClient.resp)
           call   == NewCacheRequest(req, resp, urlStr, site.rule.Request.FollowRedirects, now)
       IN  IF httpClient.err # "none"
           THEN /\ matched' = [val |-> FALSE, src |-> "failed", body |-> 0]
                /\ probePc' = "ruled"
                /\ UNCHANGED <<calls, iconRequests, baseRequests>>
           ELSE /\ iconRequests' = iconRequests
                                      + IconRequests(Requested(httpClient.resp, httpClient.start))
                /\ UNCHANGED baseRequests
                /\ IF site.rule.Request.Headers \/ call.key = NoKey
                   THEN /\ matched' = RuleEvaluated(site.rule, resp, "probe")
                        /\ probePc' = "ruled"
                        /\ UNCHANGED calls
                   ELSE /\ calls' = Put(calls, "probe", call)
                        /\ probePc' = "rulestore"
                        /\ UNCHANGED matched
    /\ httpClient' = NoCall
    /\ UNCHANGED <<site, baseInfoResp, targetResult, pendingDel, cache, written>>
    /\ ProbeFrame

\* UpdateTargetCache of the rule's response, under the lock, and the rule
\* expression evaluated on the response as it was stored
RuleStore ==
    /\ probePc = "rulestore"
    /\ \E victim \in EvictChoices(cache, now) :
         /\ cache' = UpdateTargetCache(cache, calls["probe"], victim)
         /\ written' = WrittenAfter(written, calls["probe"], victim)
    /\ matched' = RuleEvaluated(site.rule, calls["probe"].entry.Response, "probe")
    /\ calls' = Remove(calls, {"probe"})
    /\ probePc' = "ruled"
    /\ UNCHANGED <<site, httpClient, baseInfoResp, targetResult, pendingDel, iconRequests, baseRequests>>
    /\ ProbeFrame

\* the end of ProcessURL: ClearTargetURLCache on the reported URL
ProcessURLReturn ==
    /\ probePc = "ruled"
    /\ probePc' = "done"
    /\ cache' = ClearTargetURLCache(cache, targetResult.URL)
    /\ written' = Remove(written, DOMAIN cache \ DOMAIN cache')
    /\ UNCHANGED <<site, httpClient, baseInfoResp, targetResult, matched, pendingDel,
                   calls, iconRequests, baseRequests>>
    /\ ProbeFrame

----------------------------------------------------------------------------
(* The cache on its own: every interleaving of its operations *)

\* a target, the same with a trailing slash, and another one
tA == <<"a">>
tAslash == <<"a", "/">>
tB == <<"b">>

Resp1 == [id |-> 1, Body |-> 2]
\* a response above maxCacheSize
Resp2 == [id |-> 2, Body |-> 5]
\* another response to the request Resp1 answers
Resp3 == [id |-> 3, Body |-> 1]

\* calls of UpdateTargetCache(variableMap, target, followRedirects)
WriteInputs ==
    [target : {tA, tAslash}, req : {GetReq}, resp : {Resp1, Resp3}, follow : {FALSE}]
    \cup [target : {tB}, req : {GetReq}, resp : {Resp1}, follow : {FALSE}]
    \cup [target : {tA}, req : {[Method |-> "get", Body |-> 0]}, resp : {Resp2}, follow : {TRUE}]
    \cup [target : {tA}, req : {Nil, [Method |-> "PUT", Body |-> 0], [Method |-> "GET", Body |-> 1]},
          resp : {Resp1}, follow : {FALSE}]
    \cup [target : {<<>>, tB}, req : {GetReq}, resp : {Nil}, follow : {FALSE}]
    \cup [target : {<<>>}, req : {GetReq}, resp : {Resp1}, follow : {FALSE}]

PlainGet == [Type |-> "", Method |-> "GET", Headers |-> FALSE, Body |-> 0,
             FollowRedirects |-> FALSE]

\* calls of ShouldUseCache(rule, target)
ReadInputs ==
    [target : {tA, tAslash, tB, <<>>}, req : {PlainGet}]
    \cup [target : {tA},
          req : {[PlainGet EXCEPT !.FollowRedirects = TRUE],
                 [PlainGet EXCEPT !.Method = "get"],
                 [PlainGet EXCEPT !.Method = "PUT"],
                 [PlainGet EXCEPT !.Type = "tcp"],
                 [PlainGet EXCEPT !.Type = "HTTP"],
                 [PlainGet EXCEPT !.Headers = TRUE],
                 [PlainGet EXCEPT !.Body = 1]}]

\* the steps the clock takes
ClockSteps == {1, ttl + 1}

CacheInit ==
    /\ cache = EmptyMap
    /\ now = 0
    /\ nticks = 0
    /\ pendingDel = EmptyMap
    /\ lastOp = "init"
    /\ written = EmptyMap
    /\ calls = EmptyMap
    /\ iconRequests = 0
    /\ baseRequests = [head |-> 0, title |-> 0]

\* UpdateTargetCache(variableMap, target, followRedirects) of the writing
\* goroutine, up to mutex.Lock(): it returns early, or it has built its entry
\* and read the clock for its Timestamp
CacheWrite ==
    /\ "writer" \notin DOMAIN calls
    /\ \E call \in {NewCacheRequest(w.req, w.resp, w.target, w.follow, now) : w \in WriteInputs} :
         IF call.key = NoKey
         THEN lastOp' = "write" /\ UNCHANGED calls
         ELSE lastOp' = "other" /\ calls' = Put(calls, "writer", call)
    /\ UNCHANGED <<cache, written, now, nticks, pendingDel, iconRequests, baseRequests>>
    /\ UNCHANGED scanVars

\* UpdateTargetCache under the lock: evictOldestEntries, which reads the clock
\* again, and the store
CacheWriteStore ==
    /\ "writer" \in DOMAIN calls
    /\ \E victim \in EvictChoices(cache, now) :
         /\ cache' = UpdateTargetCache(cache, calls["writer"], victim)
         /\ written' = WrittenAfter(written, calls["writer"], victim)
    /\ calls' = Remove(calls, {"writer"})
    /\ lastOp' = "write"
    /\ UNCHANGED <<now, nticks, pendingDel, iconRequests, baseRequests>>
    /\ UNCHANGED scanVars

\* ShouldUseCache(rule, target) of the reading goroutine, up to RUnlock: it
\* returns a miss at once when it finds no entry
CacheRead ==
    /\ "reader" \notin DOMAIN calls
    /\ \E found \in {ShouldUseCacheLookup(cache, i.req, i.target) : i \in ReadInputs} :
         IF found.entry = Nil
         THEN lastOp' = "read" /\ UNCHANGED calls
         ELSE lastOp' = "other" /\ calls' = Put(calls, "reader", found)
    /\ UNCHANGED <<cache, written, now, nticks, pendingDel, iconRequests, baseRequests>>
    /\ UNCHANGED scanVars

\* ShouldUseCache after RUnlock: the age of the entry it found, by the clock
\* as it is now; an expired entry starts the deletion goroutine
CacheReadAge ==
    /\ "reader" \in DOMAIN calls
    /\ LET r == ShouldUseCacheAge(calls["reader"], now)
       IN  /\ PendingOf(pendingDel, r.spawn) < MaxPending
           /\ pendingDel' = Spawn(pendingDel, r.spawn)
    /\ calls' = Remove(calls, {"reader"})
    /\ lastOp' = "read"
    /\ UNCHANGED <<cache, written, now, nticks, iconRequests, baseRequests>>
    /\ UNCHANGED scanVars

\* the goroutine of ShouldUseCache: delete(cache, cacheKey) under the write lock
CacheAsyncDelete ==
    \E k \in DOMAIN pendingDel :
      /\ pendingDel[k] > 0
      /\ pendingDel' = [pendingDel EXCEPT ![k] = @ - 1]
      /\ cache' = Remove(cache, {k})
      /\ written' = Remove(written, {k})
      /\ lastOp' = "other"
      /\ UNCHANGED <<now, nticks, calls, iconRequests, baseRequests>>
      /\ UNCHANGED scanVars

\* cleanupExpiredEntries, run by the 5-minute ticker
CacheSweep ==
    /\ cache' = cleanupExpiredEntries(cache, now)
    /\ written' = Remove(written, DOMAIN cache \ DOMAIN cache')
    /\ lastOp' = "sweep"
    /\ UNCHANGED <<now, nticks, pendingDel, calls, iconRequests, baseRequests>>
    /\ UNCHANGED scanVars

\* ClearTargetURLCache(target)
CacheClearURL ==
    \E target \in {tA, tAslash, tB, <<>>} :
      /\ cache' = ClearTargetURLCache(cache, target)
      /\ written' = Remove(written, DOMAIN cache \ DOMAIN cache')
      /\ lastOp' = "other"
      /\ UNCHANGED <<now, nticks, pendingDel, calls, iconRequests, baseRequests>>
      /\ UNCHANGED scanVars

\* ClearAllCache()
CacheClearAll ==
    /\ cache' = EmptyMap
    /\ written' = EmptyMap
    /\ lastOp' = "other"
    /\ UNCHANGED <<now, nticks, pendingDel, calls, iconRequests, baseRequests>>
    /\ UNCHANGED scanVars

\* time passes
Tick ==
    \E d \in ClockSteps :
      /\ nticks < (IF scanPc = "none" THEN MaxTicks ELSE MaxScanTicks)
      /\ now' = now + d
      /\ nticks' = nticks + 1
      /\ lastOp' = "other"
      /\ UNCHANGED <<cache, pendingDel, written, calls, iconRequests, baseRequests>>
      /\ UNCHANGED scanVars

CacheNext ==
    \/ CacheWrite
    \/ CacheWriteStore
    \/ CacheRead
    \/ CacheReadAge
    \/ CacheAsyncDelete
    \/ CacheSweep
    \/ CacheClearURL
    \/ CacheClearAll
    \/ Tick

\* no scan is running
CacheOnlyInit ==
    /\ CacheInit
    /\ cfg = Options(<<>>, NoFile, FALSE, <<>>, 0, 0)
    /\ targets = <<>>
    /\ scanPc = "none"
    /\ tsub = 0
    /\ urlWg = 0
    /\ tg = <<>>
    /\ task = EmptyMap
    /\ resultChan = <<>>
    /\ Results = EmptyMap
    /\ rulePoolStats = NoStats
    /\ StoreInit
    /\ CmdIdle
    /\ ProbeIdle
    /\ ServerIdle
    /\ NetIdle

CacheSpec == CacheOnlyInit /\ [][CacheNext]_vars

----------------------------------------------------------------------------
(* the scans the model runs *)

uA == <<"https://", "a">>
uB == <<"https://", "b">>
\* a target that ends in one slash
uASlash == <<"https://", "a", "/">>
\* a target that ends in two slashes
uASlashes == <<"https://", "a", "/", "/">>
\* a bare host, with and without blanks around it
hA == <<"a">>
hASpaced == <<" ", "a", " ">>
blank == <<" ">>

\* command lines and rule sets; the worker counts stand for the configured
\* ones, scaled down
Scenarios ==
    { Options(<<uA>>, NoFile, FALSE, <<fTwo>>, 1, 1),
      Options(<<hA>>, NoFile, FALSE, <<fOne, fOneB>>, 1, 2),
      Options(<<uA>>, NoFile, FALSE, <<fFollow>>, 1, 1),
      Options(<<uASlash>>, NoFile, FALSE, <<fTwo>>, 1, 1),
      Options(<<uASlashes>>, NoFile, FALSE, <<fTwo>>, 1, 1),
      Options(<<uA>>, NoFile, FALSE, <<fActive>>, 1, 1),
      Options(<<uA>>, NoFile, TRUE, <<fActive>>, 1, 1),
      Options(<<uA>>, NoFile, FALSE, <<>>, 1, 1),
      Options(<<uA>>, NoFile, FALSE, <<fErr, fPanic, fRulePanic>>, 1, 1),
      Options(<<uA>>, NoFile, FALSE, <<fOne, fNone, fRoot>>, 1, 1),
      Options(<<uA>>, NoFile, TRUE, <<fFaulty>>, 1, 1),
      Options(<<uA>>, NoFile, FALSE, <<fStop, fStopMis>>, 1, 1),
      Options(<<hASpaced, blank, uB, <<>>, hA, uB>>, NoFile, FALSE, <<fErrNone, fPanicNone>>, 2, 1),
      Options(<<>>, <<hASpaced, <<>>, hA, blank, uB, uB>>, FALSE, <<fNone>>, 1, 1),
      Options(<<blank, <<>>>>, NoFile, FALSE, <<fOne>>, 1, 1),
      Options(<<>>, NoFile, FALSE, <<fOne>>, 1, 1),
      Options(<<>>, MissingFile, FALSE, <<fOne>>, 1, 1),
      OnPage(Options(<<uASlash>>, NoFile, FALSE, <<fTwo>>, 1, 1), "icon"),
      OnPage(Options(<<uA>>, NoFile, FALSE, <<fTwo>>, 1, 1), "inline"),
      OnPage(Options(<<uA>>, NoFile, FALSE, <<fFollow>>, 1, 1), "noicon"),
      WithScript(Options(<<hA80>>, NoFile, FALSE, <<fTwo>>, 1, 1), [fails |-> 1]),
      Embedded(Options(<<uA>>, NoFile, FALSE, <<fNone>>, 1, 1), uB),
      Resetting(Options(<<uA>>, NoFile, FALSE, <<fErrNone, fPanicNone>>, 1, 1)) }

Init ==
    /\ CacheInit
    /\ cfg \in Scenarios
    /\ targets = <<>>
    /\ scanPc = "init"
    /\ tsub = 0
    /\ urlWg = 0
    /\ tg = <<>>
    /\ task = EmptyMap
    /\ resultChan = <<>>
    /\ Results = EmptyMap
    /\ rulePoolStats = NoStats
    /\ StoreInit
    /\ CmdIdle
    /\ ProbeIdle
    /\ ServerIdle
    /\ NetIdle

\* Runner.Run, its first statement: isRunning.CompareAndSwap(false, true)
Run ==
    /\ scanPc = "init"
    /\ scanPc' = "targets"
    /\ lastOp' = "other"
    /\ UNCHANGED <<frontVars, storeVars, rulePoolStats, cfg, targets, tsub, urlWg, tg, task, resultChan, Results, cache, now,
                   nticks, pendingDel, written, calls, iconRequests, baseRequests>>

\* the key of a call under way once the scan has n targets: the ScanTarget
\* call that began before getTargets comes after the handlers of the scan
HandlerKey(c, n) == IF c = <<1>> THEN <<n + 1>> ELSE c

\* Runner.Run: getTargets; an error or an empty list ends Run, whose deferred
\* isRunning.Store(false) follows.  InitOutput and InitSockOutput are skipped,
\* no output file being named.  A ScanTarget call under way goes on
ScanGetTargets ==
    /\ scanPc = "targets"
    /\ \E g \in getTargets(cfg) :
         IF g.err \/ Len(g.targets) = 0
         THEN /\ scanPc' = "failed"
              /\ UNCHANGED <<targets, tg, task, calls>>
         ELSE LET n == Len(g.targets)
              IN  /\ scanPc' = "load"
                  /\ targets' = g.targets
                  /\ tg' = [i \in 1..n |-> NewTarget(g.targets[i])] \o tg
                  /\ task' = [p \in (1..(n + Len(tg))) \X (1..Len(cfg.AllFinger)) |->
                                IF p[1] > n THEN task[<<p[1] - n, p[2]>>] ELSE NewTask]
                  /\ calls' = [k \in {HandlerKey(c, n) : c \in DOMAIN calls} |->
                                 IF k = <<n + 1>> THEN calls[<<1>>] ELSE calls[k]]
    /\ lastOp' = "other"
    /\ UNCHANGED <<frontVars, storeVars, rulePoolStats, cfg, tsub, urlWg, resultChan, Results, cache, now, nticks,
                   pendingDel, written, iconRequests, baseRequests>>

\* Runner.Run: LoadFingerprints takes the lock of the rule store, empties
\* AllFinger and starts to append the rules
ScanLoadBegin ==
    /\ scanPc = "load"
    /\ scanPc' = "loading"
    /\ lastOp' = "other"
    /\ UNCHANGED <<frontVars, storeVars, rulePoolStats, cfg, targets, tsub, urlWg, tg, task, resultChan, Results, cache, now,
                   nticks, pendingDel, written, calls, iconRequests, baseRequests>>

\* Runner.Run: LoadFingerprints returns, every rule appended
ScanLoadReturn ==
    /\ scanPc = "loading"
    /\ scanPc' = "pool"
    /\ lastOp' = "other"
    /\ UNCHANGED <<frontVars, storeVars, rulePoolStats, cfg, targets, tsub, urlWg, tg, task, resultChan, Results, cache, now,
                   nticks, pendingDel, written, calls, iconRequests, baseRequests>>

\* Runner.Run: InitGlobalRulePool, no pool being there yet, and the deferred
\* ReleaseRulePool is registered; runScan begins
ScanInitGlobalRulePool ==
    /\ scanPc = "pool"
    /\ scanPc' = "submit"
    /\ lastOp' = "other"
    /\ UNCHANGED <<frontVars, storeVars, rulePoolStats, cfg, targets, tsub, urlWg, tg, task, resultChan, Results, cache, now,
                   nticks, pendingDel, written, calls, iconRequests, baseRequests>>

\* runScan, the submit loop: urlWg.Add(1) for the next target, before Invoke
URLAdd ==
    /\ scanPc = "submit"
    /\ tsub < Len(targets)
    /\ tg[tsub + 1].pc = "idle"
    /\ urlWg' = urlWg + 1
    /\ tg' = [tg EXCEPT ![tsub + 1].pc = "queued"]
    /\ lastOp' = "other"
    /\ UNCHANGED <<frontVars, storeVars, rulePoolStats, cfg, targets, scanPc, tsub, task, resultChan, Results, cache, now, nticks,
                   pendingDel, written, calls, iconRequests, baseRequests>>

\* runScan: pool.Invoke(urlTask{target}) returns.  Invoke blocks while every
\* URL worker is busy; with this one submitter it is never refused
InvokeURL ==
    /\ scanPc = "submit"
    /\ tsub < Len(targets)
    /\ tg[tsub + 1].pc = "queued"
    /\ Cardinality(RunningTargets) < cfg.URLWorkerCount
    /\ tsub' = tsub + 1
    /\ tg' = [tg EXCEPT ![tsub + 1].pc = "base"]
    /\ lastOp' = "other"
    /\ UNCHANGED <<frontVars, storeVars, rulePoolStats, cfg, targets, scanPc, urlWg, task, resultChan, Results, cache, now, nticks,
                   pendingDel, written, calls, iconRequests, baseRequests>>

\* isRunning: true from the CompareAndSwap of Run until its last deferred
\* call, isRunning.Store(false)
ScanIsRunning == scanPc \notin {"init", "failed", "stopped"}

\* Runner.ScanTarget(target), called once by a program that embeds the runner
\* while isRunning is true: ProcessURL on the caller's goroutine, outside the
\* URL pool, without handleMatchResults, resultChan and urlWg.  ProcessURL
\* returns an error at once for the target ""
ScanTarget ==
    /\ cfg.ApiTarget # Nil
    /\ ScanIsRunning
    /\ Len(tg) = Len(targets)
    /\ tg' = Append(tg, [NewTarget(cfg.ApiTarget) EXCEPT
                           !.pc = IF cfg.ApiTarget = <<>> THEN "done" ELSE "base"])
    /\ task' = [p \in DOMAIN task \cup ({Len(tg) + 1} \X (1..Len(cfg.AllFinger))) |->
                  IF p \in DOMAIN task THEN task[p] ELSE NewTask]
    /\ lastOp' = "other"
    /\ UNCHANGED <<frontVars, storeVars, rulePoolStats, cfg, targets, scanPc, tsub, urlWg, resultChan, Results, cache, now,
                   nticks, pendingDel, written, calls, iconRequests, baseRequests>>

\* ResetPoolStats(), called once by a program that embeds the runner: one
\* atomic store per step, in the order of ResetOrder; the call has returned
\* when no store is left
ResetPoolStats ==
    /\ cfg.ApiReset
    /\ LET k == IF <<0>> \in DOMAIN calls THEN calls[<<0>>].next ELSE 1
       IN  /\ k <= Len(ResetOrder)
           /\ rulePoolStats' = [rulePoolStats EXCEPT ![ResetOrder[k]] = 0]
           /\ calls' = Put(calls, <<0>>, [op |-> "reset", next |-> k + 1])
    /\ lastOp' = "other"
    /\ UNCHANGED <<frontVars, storeVars, cfg, targets, scanPc, tsub, urlWg, tg, task, resultChan, Results, cache, now,
                   nticks, pendingDel, written, iconRequests, baseRequests>>

\* a ProcessURL that goes on whatever GetBaseInfo returned
BaseInfoErrIgnored(ok) == FALSE

\* ProcessURL after GetBaseInfo: whether it returns the TargetResult as it is
\* (err != nil)
BaseInfoErr(ok) == ~ok

\* IsRulePoolInitialized: globalRulePool is set by InitGlobalRulePool and
\* set to nil by the deferred ReleaseRulePool of Run, after Release()
IsRulePoolInitialized == scanPc \in {"submit", "done", "summary", "closing"}

\* the rule pool takes tasks: it is there and Release() has not been called
RulePoolOpen == scanPc \in {"submit", "done", "summary"}

\* what len(AllFinger), read without the lock of the rule store, can be:
\* nothing before LoadFingerprints, any count while it appends, every rule
\* once it has returned
AllFingerLen ==
    IF scanPc \in {"init", "targets", "load", "failed"} THEN {0}
    ELSE IF scanPc = "loading" THEN 0..Len(cfg.AllFinger)
    ELSE {Len(cfg.AllFinger)}

\* ProcessURL up to the lock of UpdateTargetCache: GetBaseInfo returns, after
\* the HEAD requests of CheckProtocol, its own request and, when that was
\* answered, the requests of GetTitle for the i18n script of the page; on
\* success initializeCache builds the response (with the favicon requests of
\* an HTML root page) and UpdateTargetCache reads the clock for the entry
ProcessURLBase(i) ==
    /\ tg[i].pc = "base"
    /\ \E ok \in BOOLEAN, net \in ProtoNets :
         LET url  == BaseUrl(TargetOf(i), net)
             rec  == [tg[i] EXCEPT !.probes = @ + 1, !.baseOk = ok,
                                   !.url = IF ok THEN url ELSE TargetOf(i)]
             call == NewCacheRequest(GetReq, BaseResp, url, FALSE, now)
             head == baseRequests.head + HeadRequests(TargetOf(i), net)
         IN  IF BaseInfoErr(ok)
             THEN /\ tg' = [tg EXCEPT ![i] = [rec EXCEPT !.pc = "output"]]
                  /\ baseRequests' = [baseRequests EXCEPT !.head = head]
                  /\ UNCHANGED <<calls, iconRequests>>
             ELSE /\ tg' = [tg EXCEPT ![i] = [rec EXCEPT !.pc = "store"]]
                  /\ calls' = Put(calls, <<i>>, call)
                  /\ baseRequests' = [head |-> head,
                                      title |-> baseRequests.title + GetTitleRequests(cfg.Script)]
                  /\ iconRequests' = iconRequests + Favicon("GET", PathOf(url), cfg.Page).requests
    /\ lastOp' = "other"
    /\ UNCHANGED <<frontVars, storeVars, rulePoolStats, cfg, targets, scanPc, tsub, urlWg, task, resultChan, Results, cache,
                   now, nticks, pendingDel, written>>

\* ProcessURL, the critical section of UpdateTargetCache: the base entry is
\* stored
ProcessURLCache(i) ==
    /\ tg[i].pc = "store"
    /\ \E victim \in EvictChoices(cache, now) :
         /\ cache' = UpdateTargetCache(cache, calls[<<i>>], victim)
         /\ written' = WrittenAfter(written, calls[<<i>>], victim)
    /\ calls' = Remove(calls, {<<i>>})
    /\ tg' = [tg EXCEPT ![i].pc = "fingers"]
    /\ lastOp' = "other"
    /\ UNCHANGED <<frontVars, storeVars, rulePoolStats, cfg, targets, scanPc, tsub, urlWg, task, resultChan, Results, now,
                   nticks, pendingDel, iconRequests, baseRequests>>

\* ProcessURL after UpdateTargetCache: with len(AllFinger) == 0 it returns at
\* once, the entries of the target left in the cache
ProcessURLFingers(i) ==
    /\ tg[i].pc = "fingers"
    /\ \E n \in AllFingerLen :
         tg' = [tg EXCEPT ![i].pc = IF n = 0 THEN "output" ELSE "detect"]
    /\ lastOp' = "other"
    /\ UNCHANGED <<frontVars, storeVars, rulePoolStats, cfg, targets, scanPc, tsub, urlWg, task, resultChan, Results, cache,
                   now, nticks, pendingDel, written, calls, iconRequests, baseRequests>>

\* runFingerDetection up to the submit loop: it returns no match when the
\* rule pool is not there, and otherwise takes its snapshot of the rules
runFingerDetection(i) ==
    /\ tg[i].pc = "detect"
    /\ tg' = [tg EXCEPT ![i] =
                IF IsRulePoolInitialized /\ Len(cfg.AllFinger) > 0
                THEN [@ EXCEPT !.pc = "submit"]
                ELSE [@ EXCEPT !.pc = "clear", !.fi = Len(cfg.AllFinger) + 1]]
    /\ lastOp' = "other"
    /\ UNCHANGED <<frontVars, storeVars, rulePoolStats, cfg, targets, scanPc, tsub, urlWg, task, resultChan, Results, cache,
                   now, nticks, pendingDel, written, calls, iconRequests, baseRequests>>

\* runFingerDetection after an error of SubmitRuleTask: the second call after
\* a pause, or wg.Done() and on to the next fingerprint
SubmitError(i, rec, first) ==
    IF SubmitAgain(first)
    THEN /\ tg' = [tg EXCEPT ![i] = [rec EXCEPT !.pc = "retry", !.again = TRUE]]
         /\ UNCHANGED task
    ELSE /\ tg' = [tg EXCEPT ![i] = NextFinger([rec EXCEPT !.wg = RejectedDone(@)])]
         /\ task' = [task EXCEPT ![<<i, rec.fi>>] = [@ EXCEPT !.pc = "done", !.end = "rejected"]]

\* runFingerDetection, one turn of the submit loop up to the nil test of
\* SubmitRuleTask: wg.Add(1) before the first call; without a pool the call
\* fails, and the second call after the pause tests again
SubmitRule(i) ==
    /\ tg[i].pc \in {"submit", "retry"}
    /\ LET first == tg[i].pc = "submit"
           rec   == IF first THEN [tg[i] EXCEPT !.wg = @ + 1] ELSE tg[i]
       IN  IF IsRulePoolInitialized
           THEN /\ tg' = [tg EXCEPT ![i] = [rec EXCEPT !.pc = "invoke"]]
                /\ UNCHANGED task
           ELSE SubmitError(i, rec, ~tg[i].again)
    /\ lastOp' = "other"
    /\ UNCHANGED <<frontVars, storeVars, rulePoolStats, cfg, targets, scanPc, tsub, urlWg, resultChan, Results, cache, now,
                   nticks, pendingDel, written, calls, iconRequests, baseRequests>>

\* SubmitRuleTask, globalRulePool.Invoke(task): the variable is read again,
\* without synchronisation, and the call panics on the submitter's goroutine
\* when ReleaseRulePool has set it to nil since the test.  Otherwise Invoke
\* starts the task on a free worker, blocks, or is refused when the pool is
\* closed or MaxBlockingTasks submitters block
InvokeRule(i) ==
    /\ tg[i].pc = "invoke"
    /\ LET j == tg[i].fi
       IN  IF ~IsRulePoolInitialized
           THEN /\ tg' = [tg EXCEPT ![i].pc = "crashed"]
                /\ UNCHANGED task
           ELSE IF RulePoolOpen /\ FreeRuleWorker
           THEN /\ tg' = [tg EXCEPT ![i].pc = "accepted"]
                /\ task' = [task EXCEPT ![<<i, j>>] = StartTask(cfg.AllFinger[j])]
           ELSE IF RulePoolOpen /\ Waiting < MaxBlockingTasks
           THEN /\ tg' = [tg EXCEPT ![i].pc = "blocked"]
                /\ UNCHANGED task
           ELSE SubmitError(i, tg[i], ~tg[i].again)
    /\ lastOp' = "other"
    /\ UNCHANGED <<frontVars, storeVars, rulePoolStats, cfg, targets, scanPc, tsub, urlWg, resultChan, Results, cache, now,
                   nticks, pendingDel, written, calls, iconRequests, baseRequests>>

\* a submitter blocked in Invoke gets a worker, or an error when the pool has
\* been released
Unblock(i) ==
    /\ tg[i].pc = "blocked"
    /\ IF RulePoolOpen
       THEN /\ FreeRuleWorker
            /\ tg' = [tg EXCEPT ![i].pc = "accepted"]
            /\ task' = [task EXCEPT ![<<i, tg[i].fi>>] = StartTask(cfg.AllFinger[tg[i].fi])]
       ELSE SubmitError(i, tg[i], ~tg[i].again)
    /\ lastOp' = "other"
    /\ UNCHANGED <<frontVars, storeVars, rulePoolStats, cfg, targets, scanPc, tsub, urlWg, resultChan, Results, cache, now,
                   nticks, pendingDel, written, calls, iconRequests, baseRequests>>

\* SubmitRuleTask after Invoke has returned nil: the task is counted as
\* submitted, and the submit loop moves on; the worker may be ahead of it
SubmitRuleTask(i) ==
    /\ tg[i].pc = "accepted"
    /\ rulePoolStats' = Submitted(rulePoolStats)
    /\ tg' = [tg EXCEPT ![i] = NextFinger(@)]
    /\ lastOp' = "other"
    /\ UNCHANGED <<frontVars, storeVars, cfg, targets, scanPc, tsub, urlWg, task, resultChan, Results, cache, now,
                   nticks, pendingDel, written, calls, iconRequests, baseRequests>>

\* evaluateFingerprintWithCache, one rule up to the lookup of ShouldUseCache:
\* the gate of the passive mode, then the entry read under the read lock
EvaluateRule(p) ==
    /\ task[p].pc = "run"
    /\ LET i      == p[1]
           fg     == cfg.AllFinger[p[2]]
           rule   == fg.Rules[task[p].ri]
           path   == TrimSpace(rule.Request.Path)
           urlStr == ParseTarget(tg[i].url, path)
           found  == ShouldUseCacheLookup(cache, rule.Request, urlStr)
       IN  IF ~cfg.Active /\ Gated(rule.Request, path)
           THEN /\ task' = [task EXCEPT ![p] = Bind(@, fg, rule.Key, FALSE, "gated", @.resp)]
                /\ UNCHANGED calls
           ELSE IF found.entry = Nil
           THEN /\ task' = [task EXCEPT ![p].pc = "probe"]
                /\ UNCHANGED calls
           ELSE /\ task' = [task EXCEPT ![p].pc = "age"]
                /\ calls' = Put(calls, p, found)
    /\ lastOp' = "other"
    /\ UNCHANGED <<rulePoolStats, cfg, targets, scanPc, tsub, urlWg, tg, resultChan, Results, cache, now, nticks,
                   pendingDel, written, iconRequests, baseRequests>>
    /\ UNCHANGED <<storeVars, frontVars>>

\* ShouldUseCache after the read lock: the clock is read; a fresh entry is a
\* hit and the rule expression is evaluated on it, an expired one starts a
\* goroutine that deletes the key and the rule goes on to its request
EvaluateAge(p) ==
    /\ task[p].pc = "age"
    /\ LET fg   == cfg.AllFinger[p[2]]
           rule == fg.Rules[task[p].ri]
           r    == ShouldUseCacheAge(calls[p], now)
       IN  IF r.hit
           THEN /\ task' = [task EXCEPT ![p] = RuleOutcome(@, fg, rule, "cache", r.Response)]
                /\ UNCHANGED pendingDel
           ELSE /\ task' = [task EXCEPT ![p].pc = "probe"]
                /\ pendingDel' = Spawn(pendingDel, r.spawn)
    /\ calls' = Remove(calls, {p})
    /\ lastOp' = "other"
    /\ UNCHANGED <<rulePoolStats, cfg, targets, scanPc, tsub, urlWg, tg, resultChan, Results, cache, now, nticks,
                   written, iconRequests, baseRequests>>
    /\ UNCHANGED <<storeVars, frontVars>>

\* finger.SendRequest returns: an error binds false; the response is built
\* (with the favicon requests of an HTML root page) and, when the rule has no
\* headers, UpdateTargetCache reads the clock for its entry; a response that
\* is not cached is evaluated at once
RuleProbe(p) ==
    /\ task[p].pc = "probe"
    /\ \E ok \in BOOLEAN :
         LET i      == p[1]
             fg     == cfg.AllFinger[p[2]]
             rule   == fg.Rules[task[p].ri]
             path   == TrimSpace(rule.Request.Path)
             urlStr == ParseTarget(tg[i].url, path)
             req    == [Method |-> rule.Request.Method, Body |-> rule.Request.Body]
             call   == NewCacheRequest(req, RuleResp, urlStr, rule.Request.FollowRedirects, now)
         IN  /\ tg' = [tg EXCEPT ![i].probes = @ + 1]
             /\ IF ~ok
                THEN /\ task' = [task EXCEPT ![p] = Bind(@, fg, rule.Key, FALSE, "failed", @.resp)]
                     /\ UNCHANGED <<calls, iconRequests, baseRequests>>
                ELSE /\ iconRequests' = iconRequests
                                        + Favicon(rule.Request.Method, formatPath(path), cfg.Page).requests
                     /\ UNCHANGED baseRequests
                     /\ IF rule.Request.Headers \/ call.key = NoKey
                        THEN /\ task' = [task EXCEPT ![p] = RuleOutcome(@, fg, rule, "probe", RuleResp)]
                             /\ UNCHANGED calls
                        ELSE /\ task' = [task EXCEPT ![p].pc = "store"]
                             /\ calls' = Put(calls, p, call)
    /\ lastOp' = "other"
    /\ UNCHANGED <<rulePoolStats, cfg, targets, scanPc, tsub, urlWg, resultChan, Results, cache, now, nticks,
                   pendingDel, written>>
    /\ UNCHANGED <<storeVars, frontVars>>

\* UpdateTargetCache from its lock on, and the rule expression evaluated on
\* the response that was stored
RuleCache(p) ==
    /\ task[p].pc = "store"
    /\ LET fg   == cfg.AllFinger[p[2]]
           rule == fg.Rules[task[p].ri]
       IN  /\ \E victim \in EvictChoices(cache, now) :
                /\ cache' = UpdateTargetCache(cache, calls[p], victim)
                /\ written' = WrittenAfter(written, calls[p], victim)
           /\ task' = [task EXCEPT ![p] = RuleOutcome(@, fg, rule, "probe", calls[p].entry.Response)]
    /\ calls' = Remove(calls, {p})
    /\ lastOp' = "other"
    /\ UNCHANGED <<rulePoolStats, cfg, targets, scanPc, tsub, urlWg, tg, resultChan, Results, now, nticks,
                   pendingDel, iconRequests, baseRequests>>
    /\ UNCHANGED <<storeVars, frontVars>>

\* the end of evaluateFingerprintWithCache and of the body of processRuleTask:
\* the final expression; an error is counted as a failure, a match is sent
\* without blocking
TaskFinal(p) ==
    /\ task[p].pc = "final"
    /\ LET i   == p[1]
           fg  == cfg.AllFinger[p[2]]
           ev  == Evaluate(fg.Expression, task[p].resp, task[p].bound)
           end == IF ev.kind = "bool" THEN "ok" ELSE IF ev.kind = "err" THEN "err" ELSE "panic"
           ch  == IF ev.kind = "bool" /\ ev.val
                  THEN TrySend(tg[i].chan, chanCap(Len(cfg.AllFinger)), fg.Id)
                  ELSE tg[i].chan
       IN  /\ task' = [task EXCEPT ![p] = [@ EXCEPT !.pc = "defer", !.end = end,
                                                   !.result = ev.kind = "bool" /\ ev.val]]
           /\ tg' = [tg EXCEPT ![i].chan = ch]
           /\ rulePoolStats' = IF end = "err" THEN Failed(rulePoolStats) ELSE rulePoolStats
    /\ lastOp' = "other"
    /\ UNCHANGED <<cfg, targets, scanPc, tsub, urlWg, resultChan, Results, cache, now, nticks,
                   pendingDel, written, calls, iconRequests, baseRequests>>
    /\ UNCHANGED <<storeVars, frontVars>>

\* the deferred function of processRuleTask, after a return and after a
\* panic: WaitGroup.Done()
TaskDeferred(p) ==
    /\ task[p].pc = "defer"
    /\ task' = [task EXCEPT ![p].pc = "count"]
    /\ tg' = [tg EXCEPT ![p[1]] = TaskDone(@)]
    /\ lastOp' = "other"
    /\ UNCHANGED <<rulePoolStats, cfg, targets, scanPc, tsub, urlWg, resultChan, Results, cache, now, nticks,
                   pendingDel, written, calls, iconRequests, baseRequests>>
    /\ UNCHANGED <<storeVars, frontVars>>

\* the handler of the rule pool after processRuleTask has returned: the task
\* is counted as completed, the handler returns and the worker is free
TaskCounted(p) ==
    /\ task[p].pc = "count"
    /\ task[p].end # "panic"
    /\ task' = [task EXCEPT ![p].pc = "done"]
    /\ rulePoolStats' = Counted(rulePoolStats)
    /\ lastOp' = "other"
    /\ UNCHANGED <<cfg, targets, scanPc, tsub, urlWg, tg, resultChan, Results, cache, now, nticks,
                   pendingDel, written, calls, iconRequests, baseRequests>>
    /\ UNCHANGED <<storeVars, frontVars>>

\* the worker of a task that panicked gives up its place in the pool.  The
\* pool library recovers the panic; whether the place is given up before or
\* after the panic handler has run is its choice
WorkerExit(p) ==
    /\ task[p].end = "panic"
    /\ task[p].pc \in {"count", "handled"}
    /\ task' = [task EXCEPT ![p].pc = IF @ = "count" THEN "freed" ELSE "done"]
    /\ lastOp' = "other"
    /\ UNCHANGED <<rulePoolStats, cfg, targets, scanPc, tsub, urlWg, tg, resultChan, Results, cache, now, nticks,
                   pendingDel, written, calls, iconRequests, baseRequests>>
    /\ UNCHANGED <<storeVars, frontVars>>

\* the panic handler of the rule pool, called with the recovered value: the
\* task is counted as failed
RulePanicHandler(p) ==
    /\ task[p].end = "panic"
    /\ task[p].pc \in {"count", "freed"}
    /\ task' = [task EXCEPT ![p].pc = IF @ = "count" THEN "handled" ELSE "done"]
    /\ rulePoolStats' = PanicCounted(rulePoolStats)
    /\ lastOp' = "other"
    /\ UNCHANGED <<cfg, targets, scanPc, tsub, urlWg, tg, resultChan, Results, cache, now, nticks,
                   pendingDel, written, calls, iconRequests, baseRequests>>
    /\ UNCHANGED <<storeVars, frontVars>>

\* a panic inside the handler of the URL pool, raised while ProcessURL runs:
\* the deferred urlWg.Done() of the handler runs as the panic unwinds; no
\* result is handed out or sent
URLHandlerPanics(i) ==
    /\ i <= Len(targets)
    /\ tg[i].pc = "base"
    /\ urlWg' = urlWg - 1
    /\ tg' = [tg EXCEPT ![i].pc = "unwound"]
    /\ lastOp' = "other"
    /\ UNCHANGED <<frontVars, storeVars, rulePoolStats, cfg, targets, scanPc, tsub, task, resultChan, Results, cache,
                   now, nticks, pendingDel, written, calls, iconRequests, baseRequests>>

\* the panic handler of the URL pool, called with the recovered value: it
\* writes the value to the log and keeps no count; the worker has given up
\* its place
URLPanicHandler(i) ==
    /\ tg[i].pc = "unwound"
    /\ tg' = [tg EXCEPT ![i].pc = "panicked"]
    /\ lastOp' = "other"
    /\ UNCHANGED <<frontVars, storeVars, rulePoolStats, cfg, targets, scanPc, tsub, urlWg, task, resultChan, Results, cache,
                   now, nticks, pendingDel, written, calls, iconRequests, baseRequests>>

\* the collector goroutine of runFingerDetection, started after the submit loop
Collect(i) ==
    /\ tg[i].pc = "wait"
    /\ tg[i].chan # <<>>
    /\ tg' = [tg EXCEPT ![i] = [@ EXCEPT !.matches = Append(@, Head(tg[i].chan)),
                                         !.chan = Tail(@)]]
    /\ lastOp' = "other"
    /\ UNCHANGED <<frontVars, storeVars, rulePoolStats, cfg, targets, scanPc, tsub, urlWg, task, resultChan, Results, cache, now,
                   nticks, pendingDel, written, calls, iconRequests, baseRequests>>

\* runFingerDetection returns: wg.Wait() is over, the channel is closed and
\* its collector has drained it
AwaitRules(i) ==
    /\ tg[i].pc = "wait"
    /\ tg[i].wg = 0
    /\ tg' = [tg EXCEPT ![i] = [@ EXCEPT !.matches = @ \o tg[i].chan, !.chan = <<>>, !.pc = "clear"]]
    /\ lastOp' = "other"
    /\ UNCHANGED <<frontVars, storeVars, rulePoolStats, cfg, targets, scanPc, tsub, urlWg, task, resultChan, Results, cache,
                   now, nticks, pendingDel, written, calls, iconRequests, baseRequests>>

\* ProcessURL after runFingerDetection: ClearTargetURLCache, in its own
\* critical section, and ProcessURL returns
ProcessURLClear(i) ==
    /\ tg[i].pc = "clear"
    /\ cache' = ClearTargetURLCache(cache, tg[i].url)
    /\ written' = Remove(written, DOMAIN cache \ DOMAIN cache')
    /\ tg' = [tg EXCEPT ![i].pc = "output"]
    /\ lastOp' = "other"
    /\ UNCHANGED <<frontVars, storeVars, rulePoolStats, cfg, targets, scanPc, tsub, urlWg, task, resultChan, Results, now,
                   nticks, pendingDel, calls, iconRequests, baseRequests>>

\* ProcessURL has returned.  The URL handler of runScan calls
\* handleMatchResults; ScanTarget hands the result to its caller, and is over
HandlerOutput(i) ==
    /\ tg[i].pc = "output"
    /\ tg' = [tg EXCEPT ![i] = IF i > Len(targets) THEN [@ EXCEPT !.pc = "done"]
                               ELSE [handleMatchResults(@) EXCEPT !.pc = "send"]]
    /\ lastOp' = "other"
    /\ UNCHANGED <<frontVars, storeVars, rulePoolStats, cfg, targets, scanPc, tsub, urlWg, task, resultChan, Results, cache,
                   now, nticks, pendingDel, written, calls, iconRequests, baseRequests>>

\* the URL handler of runScan: the non-blocking send to resultChan
HandlerSend(i) ==
    /\ tg[i].pc = "send"
    /\ resultChan' = TrySend(resultChan, scanChanCap(cfg.URLWorkerCount, Len(targets)),
                             [target |-> targets[i],
                              result |-> [URL |-> tg[i].url, Matches |-> tg[i].matches]])
    /\ tg' = [tg EXCEPT ![i].pc = "return"]
    /\ lastOp' = "other"
    /\ UNCHANGED <<frontVars, storeVars, rulePoolStats, cfg, targets, scanPc, tsub, urlWg, task, Results, cache,
                   now, nticks, pendingDel, written, calls, iconRequests, baseRequests>>

\* the URL handler of runScan returns: the deferred urlWg.Done()
HandlerDone(i) ==
    /\ tg[i].pc = "return"
    /\ urlWg' = urlWg - 1
    /\ tg' = [tg EXCEPT ![i].pc = "done"]
    /\ lastOp' = "other"
    /\ UNCHANGED <<frontVars, storeVars, rulePoolStats, cfg, targets, scanPc, tsub, task, resultChan, Results, cache,
                   now, nticks, pendingDel, written, calls, iconRequests, baseRequests>>

\* the collector goroutine of runScan: data is received from resultChan
Drain ==
    /\ resultChan # <<>>
    /\ <<0, 0>> \notin DOMAIN calls
    /\ calls' = Put(calls, <<0, 0>>, [op |-> "collect", data |-> Head(resultChan)])
    /\ resultChan' = Tail(resultChan)
    /\ lastOp' = "other"
    /\ UNCHANGED <<frontVars, storeVars, rulePoolStats, cfg, targets, scanPc, tsub, urlWg, tg, task, Results, cache, now, nticks,
                   pendingDel, written, iconRequests, baseRequests>>

\* the collector goroutine of runScan, under r.mutex:
\* r.Results[data.target] = data.result
DrainStore ==
    /\ <<0, 0>> \in DOMAIN calls
    /\ Results' = Put(Results, calls[<<0, 0>>].data.target, calls[<<0, 0>>].data.result)
    /\ calls' = Remove(calls, {<<0, 0>>})
    /\ lastOp' = "other"
    /\ UNCHANGED <<frontVars, storeVars, rulePoolStats, cfg, targets, scanPc, tsub, urlWg, tg, task, resultChan, cache, now,
                   nticks, pendingDel, written, iconRequests, baseRequests>>

\* urlWg.Wait() returns, runScan returns, and Run clears the cache
ScanReturn ==
    /\ scanPc = "submit"
    /\ tsub = Len(targets)
    /\ urlWg = 0
    /\ scanPc' = "done"
    /\ cache' = EmptyMap
    /\ written' = EmptyMap
    /\ lastOp' = "other"
    /\ UNCHANGED <<frontVars, storeVars, rulePoolStats, cfg, targets, tsub, urlWg, tg, task, resultChan, Results, now, nticks,
                   pendingDel, calls, iconRequests, baseRequests>>

\* runScan has returned
ScanReturned == scanPc \in {"done", "summary", "closing", "released", "stopped"}

\* output.PrintSummary: the targets, and the results with and without a match
PrintSummary(tgts, results) ==
    [total        |-> Len(tgts),
     matchCount   |-> Cardinality({k \in DOMAIN results : Len(results[k].Matches) > 0}),
     noMatchCount |-> Cardinality({k \in DOMAIN results : Len(results[k].Matches) = 0})]

\* Runner.Run after runScan: printSummary(targets, r.Results) under the read
\* lock; the collector goroutine of runScan may still be draining resultChan
printSummary ==
    /\ scanPc = "done"
    /\ scanPc' = "summary"
    /\ lastOp' = "other"
    /\ UNCHANGED <<frontVars, storeVars, rulePoolStats, cfg, targets, tsub, urlWg, tg, task, resultChan, Results, cache, now,
                   nticks, pendingDel, written, calls, iconRequests, baseRequests>>

\* the deferred ReleaseRulePool of Run, globalRulePool.Release(): the pool
\* takes no task any more; the tasks that run go on to their end
ReleaseRulePool ==
    /\ scanPc = "summary"
    /\ scanPc' = "closing"
    /\ lastOp' = "other"
    /\ UNCHANGED <<frontVars, storeVars, rulePoolStats, cfg, targets, tsub, urlWg, tg, task, resultChan, Results, cache, now,
                   nticks, pendingDel, written, calls, iconRequests, baseRequests>>

\* the deferred ReleaseRulePool of Run: globalRulePool = nil, a plain store
ReleaseRulePoolNil ==
    /\ scanPc = "closing"
    /\ scanPc' = "released"
    /\ lastOp' = "other"
    /\ UNCHANGED <<frontVars, storeVars, rulePoolStats, cfg, targets, tsub, urlWg, tg, task, resultChan, Results, cache, now,
                   nticks, pendingDel, written, calls, iconRequests, baseRequests>>

\* the last deferred call of Run: isRunning.Store(false)
RunStopped ==
    /\ scanPc = "released"
    /\ scanPc' = "stopped"
    /\ lastOp' = "other"
    /\ UNCHANGED <<frontVars, storeVars, rulePoolStats, cfg, targets, tsub, urlWg, tg, task, resultChan, Results, cache, now,
                   nticks, pendingDel, written, calls, iconRequests, baseRequests>>

\* the steps of the scan itself
ScanStep ==
    \/ Run
    \/ ScanGetTargets
    \/ ScanLoadBegin
    \/ ScanLoadReturn
    \/ ScanInitGlobalRulePool
    \/ URLAdd
    \/ InvokeURL
    \/ \E i \in DOMAIN tg : ProcessURLBase(i)
    \/ \E i \in DOMAIN tg : ProcessURLCache(i)
    \/ \E i \in DOMAIN tg : ProcessURLFingers(i)
    \/ \E i \in DOMAIN tg : runFingerDetection(i)
    \/ \E i \in DOMAIN tg : SubmitRule(i)
    \/ \E i \in DOMAIN tg : InvokeRule(i)
    \/ \E i \in DOMAIN tg : Unblock(i)
    \/ \E i \in DOMAIN tg : SubmitRuleTask(i)
    \/ \E i \in DOMAIN tg : Collect(i)
    \/ \E i \in DOMAIN tg : AwaitRules(i)
    \/ \E i \in DOMAIN tg : ProcessURLClear(i)
    \/ \E i \in DOMAIN tg : HandlerOutput(i)
    \/ \E i \in DOMAIN tg : HandlerSend(i)
    \/ \E i \in DOMAIN tg : HandlerDone(i)
    \/ \E p \in DOMAIN task : EvaluateRule(p)
    \/ \E p \in DOMAIN task : EvaluateAge(p)
    \/ \E p \in DOMAIN task : RuleProbe(p)
    \/ \E p \in DOMAIN task : RuleCache(p)
    \/ \E p \in DOMAIN task : TaskFinal(p)
    \/ \E p \in DOMAIN task : TaskDeferred(p)
    \/ \E p \in DOMAIN task : TaskCounted(p)
    \/ \E p \in DOMAIN task : WorkerExit(p)
    \/ \E p \in DOMAIN task : RulePanicHandler(p)
    \/ Drain
    \/ DrainStore
    \/ ScanReturn
    \/ printSummary
    \/ ReleaseRulePool
    \/ ReleaseRulePoolNil
    \/ RunStopped

Next == ScanStep \/ Tick \/ CacheAsyncDelete \/ CacheSweep \/ ScanTarget \/ ResetPoolStats

Spec == Init /\ [][Next]_vars

\* goroutines are scheduled and probes return: no step of the scan that stays
\* possible is put off forever
FairSpec == Spec /\ WF_vars(ScanStep)

\* the scan when the handler of the URL pool can panic
PanicNext ==
    \/ ScanStep
    \/ \E i \in DOMAIN tg : URLHandlerPanics(i)
    \/ \E i \in DOMAIN tg : URLPanicHandler(i)

PanicSpec == Init /\ [][PanicNext]_vars

\* the rule store on its own: no scan is running
StoreSpec == CacheOnlyInit /\ [][StoreNext]_vars

\* Execute on every command line of CmdInputs, through Runner.Run to the exit
CmdSetup ==
    /\ CacheInit
    /\ cfg = Options(<<>>, NoFile, FALSE, <<>>, 0, 0)
    /\ targets = <<>>
    /\ scanPc = "none"
    /\ tsub = 0
    /\ urlWg = 0
    /\ tg = <<>>
    /\ task = EmptyMap
    /\ resultChan = <<>>
    /\ Results = EmptyMap
    /\ rulePoolStats = NoStats
    /\ StoreInit
    /\ CmdInit
    /\ ProbeIdle
    /\ ServerIdle
    /\ NetIdle

CmdNext ==
    \/ NewCmdOptions
    \/ NewRunner
    \/ RunGetTargets
    \/ RunInitOutput
    \/ RunInitSockOutput
    \/ RunLoadFingerprints
    \/ RunInitGlobalRulePool
    \/ RunScanAndSummary
    \/ RunDeferred
    \/ RunReturn
    \/ \E c \in 1..MaxConns : Accept(c)
    \/ \E c \in 1..MaxConns : handleConnection(c)
    \/ \E c \in 1..MaxConns : handleConnectionReturn(c)

CmdSpec == CmdSetup /\ [][CmdNext]_vars

\* ProcessURL on one target of Sites, with the clock and the deletions of
\* the cache
ProbeSetup ==
    /\ CacheInit
    /\ cfg = Options(<<>>, NoFile, FALSE, <<>>, 0, 0)
    /\ targets = <<>>
    /\ scanPc = "none"
    /\ tsub = 0
    /\ urlWg = 0
    /\ tg = <<>>
    /\ task = EmptyMap
    /\ resultChan = <<>>
    /\ Results = EmptyMap
    /\ rulePoolStats = NoStats
    /\ StoreInit
    /\ CmdIdle
    /\ ProbeInit
    /\ ServerIdle
    /\ NetIdle

ProbeNext ==
    \/ ProcessURLSend
    \/ ClientSend
    \/ ClientRedirect
    \/ ProcessURLUpdate
    \/ ProcessURLStore
    \/ RuleSend
    \/ RuleAge
    \/ RuleReturn
    \/ RuleStore
    \/ ProcessURLReturn
    \/ Tick
    \/ CacheAsyncDelete

ProbeSpec == ProbeSetup /\ [][ProbeNext]_vars

\* the server information of every header of ServerHeaders
ServerSetup ==
    /\ CacheInit
    /\ cfg = Options(<<>>, NoFile, FALSE, <<>>, 0, 0)
    /\ targets = <<>>
    /\ scanPc = "none"
    /\ tsub = 0
    /\ urlWg = 0
    /\ tg = <<>>
    /\ task = EmptyMap
    /\ resultChan = <<>>
    /\ Results = EmptyMap
    /\ rulePoolStats = NoStats
    /\ StoreInit
    /\ CmdIdle
    /\ ProbeIdle
    /\ ServerInit
    /\ NetIdle

ServerNext == GetServerInfoFromResponse

ServerSpec == ServerSetup /\ [][ServerNext]_vars


\* CheckProtocol on every host of ProtoHosts against every answer of ProtoNets
ProtoSetup ==
    /\ CacheInit
    /\ cfg = Options(<<>>, NoFile, FALSE, <<>>, 0, 0)
    /\ targets = <<>>
    /\ scanPc = "none"
    /\ tsub = 0
    /\ urlWg = 0
    /\ tg = <<>>
    /\ task = EmptyMap
    /\ resultChan = <<>>
    /\ Results = EmptyMap
    /\ rulePoolStats = NoStats
    /\ StoreInit
    /\ CmdIdle
    /\ ProbeIdle
    /\ ServerIdle
    /\ ProtoInit
    /\ ClientIdle

ProtoNext == CheckProtocolCall

ProtoSpec == ProtoSetup /\ [][ProtoNext]_vars

\* Runner.Run of one command line of each kind of output, with another
\* caller of Run on the same Runner
RunnerSetup ==
    /\ CmdSetup
    /\ ~cmdOptions.Version /\ ~cmdOptions.InitConfig /\ ~cmdOptions.PrintPreset
    /\ cmdOptions.Threads = DefaultURLWorkers
    /\ cmdOptions.RuleThreads = DefaultRuleWorkers

RunnerNext ==
    \/ NewCmdOptions
    \/ NewRunner
    \/ RunGetTargets
    \/ RunInitOutput
    \/ RunInitSockOutput
    \/ RunLoadFingerprints
    \/ RunInitGlobalRulePool
    \/ RunScanAndSummary
    \/ RunDeferred
    \/ RunReturn
    \/ OtherRun
    \/ OtherReturn

RunnerSpec == RunnerSetup /\ [][RunnerNext]_vars

\* one Send or Receive of a connected client, under every behaviour of the
\* connection and of the dials
ClientSetup ==
    /\ CacheInit
    /\ cfg = Options(<<>>, NoFile, FALSE, <<>>, 0, 0)
    /\ targets = <<>>
    /\ scanPc = "none"
    /\ tsub = 0
    /\ urlWg = 0
    /\ tg = <<>>
    /\ task = EmptyMap
    /\ resultChan = <<>>
    /\ Results = EmptyMap
    /\ rulePoolStats = NoStats
    /\ StoreInit
    /\ CmdIdle
    /\ ProbeIdle
    /\ ServerIdle
    /\ ProtoIdle
    /\ ClientInit

ClientNext ==
    \/ \E outcome \in WriteOutcomes : Send(outcome)
    \/ \E outcome \in ReadOutcomes : Receive(outcome)
    \/ \E dialed \in BOOLEAN, outcome \in WriteOutcomes : retryWrite(dialed, outcome)
    \/ \E dialed \in BOOLEAN, outcome \in ReadOutcomes : retryRead(dialed, outcome)

ClientSpec == ClientSetup /\ [][ClientNext]_vars

----------------------------------------------------------------------------
(* Claims about the cache *)

\* history: the key the specification gives a read
SpecReadKey(i) == SpecKey(i.target, i.req.Method, i.req.FollowRedirects)

\* the result of a read whose lookup and clock read both happen now
ReadResult(i) == ShouldUseCache(cache, i.req, i.target, now)

\* C2: a cache read never returns an entry whose age exceeds the TTL: in every
\* reachable state, whatever is read, a hit is an entry written at most TTL
\* ago, and so is the hit of a read that found its entry earlier and reads
\* the clock now
C2_NoStaleHit ==
    /\ \A i \in ReadInputs :
          ReadResult(i).hit =>
              /\ ReadResult(i).key \in DOMAIN cache
              /\ now - cache[ReadResult(i).key].at <= ttl
    /\ \A c \in DOMAIN calls :
          (calls[c].op = "read" /\ ShouldUseCacheAge(calls[c], now).hit)
          => now - calls[c].entry.at <= ttl

\* a read has found one entry expired, and a read under way holds an entry
\* that is expired by now, while another entry is still served
C2_Witness ==
    /\ \E k \in DOMAIN cache : PendingOf(pendingDel, k) > 0 /\ now - cache[k].at > ttl
    /\ \E c \in DOMAIN calls :
          calls[c].op = "read" /\ now - calls[c].entry.at > ttl
    /\ \E i \in ReadInputs : ReadResult(i).hit

\* C3: after every cache write the number of cached entries is at most max_size
C3_SizeBound == total_entries(cache) <= maxSize

\* C8: within TTL a read of a cacheable (url, method, follow_redirects) returns
\* exactly the request and response records of the most recent write under that
\* key: every hit returns them, and a latest write that is still stored and
\* not expired is a hit
C8_ReadReturnsLastWrite ==
    /\ \A i \in ReadInputs :
          ReadResult(i).hit =>
              /\ SpecReadKey(i) \in DOMAIN written
              /\ <<ReadResult(i).Request, ReadResult(i).Response>> = written[SpecReadKey(i)]
    /\ \A i \in ReadInputs :
          (/\ ReadKey(i.req, i.target) # NoKey
           /\ SpecReadKey(i) \in DOMAIN written
           /\ SpecReadKey(i) \in DOMAIN cache
           /\ Fresh(cache[SpecReadKey(i)], now))
          => ReadResult(i).hit

\* a second write has replaced the records of the first by other records: a
\* read under way found the response of the first write under the key, time
\* has passed, and a read of the key returns the records of the second write
C8_Witness ==
    /\ lastOp = "write"
    /\ nticks > 0
    /\ \E i \in ReadInputs :
          /\ ReadResult(i).hit
          /\ ReadResult(i).Response = Resp3
          /\ written[SpecReadKey(i)] = <<GetReq, Resp3>>
          /\ cache[ReadResult(i).key].at > 0
          /\ "reader" \in DOMAIN calls
          /\ calls["reader"].key = ReadResult(i).key
          /\ calls["reader"].entry.Response = Resp1

\* C10: an entry read TTL + 1 s or more after it was written is a miss, and the
\* next sweep removes it: in every state such an entry is not served, after a
\* sweep no such entry is left, and total_entries has gone down by one when it
\* was the only expired entry
C10_ExpiredMissThenSwept ==
    /\ [](\A i \in ReadInputs :
            (/\ ReadKey(i.req, i.target) \in DOMAIN cache
             /\ now - cache[ReadKey(i.req, i.target)].at >= ttl + TicksPerSec)
            => ~ReadResult(i).hit)
    /\ [][lastOp' = "sweep" =>
            \A k \in DOMAIN cache :
                now - cache[k].at >= ttl + TicksPerSec
                => /\ k \notin DOMAIN cache'
                   /\ (\A j \in DOMAIN cache \ {k} : ~Expired(cache[j], now))
                      => total_entries(cache') = total_entries(cache) - 1
         ]_vars

\* the sweep has run after a read missed an expired entry, and the entry is gone
C10_Witness ==
    /\ lastOp = "sweep"
    /\ now >= ttl + TicksPerSec
    /\ \E k \in DOMAIN pendingDel : pendingDel[k] > 0 /\ k \notin DOMAIN cache
    /\ total_entries(cache) = 1

----------------------------------------------------------------------------
(* Claims about the scan *)

\* the rule tasks of target i
TasksOf(i) == {p \in DOMAIN task : p[1] = i}

\* the rule evaluations of task p that sent a request
Sent(p) == {k \in 1..Len(task[p].seen) : task[p].seen[k].src \in {"probe", "failed"}}

RECURSIVE SumOver(_, _)
SumOver(S, f) ==
    IF S = {} THEN 0 ELSE LET x == CHOOSE y \in S : TRUE IN f[x] + SumOver(S \ {x}, f)

\* the requests the rule tasks of target i have sent: those of the rules
\* evaluated, and the one whose response is being stored
RuleProbes(i) ==
    SumOver(TasksOf(i), [p \in TasksOf(i) |->
                Cardinality(Sent(p)) + (IF task[p].pc = "store" THEN 1 ELSE 0)])

Outstanding(i) ==
    Cardinality({p \in TasksOf(i) :
                   task[p].pc \notin {"none", "count", "handled", "freed", "done"}})
    + (IF tg[i].pc \in {"invoke", "blocked", "retry", "crashed"} THEN 1 ELSE 0)

\* the scan has returned (or Run has refused an empty target list), every
\* target handler of the scan is done and its latch is at zero; a ScanTarget
\* call is done as well, or has panicked in SubmitRuleTask
ScanOver ==
    /\ (ScanReturned \/ scanPc = "failed")
    /\ \A i \in 1..Len(targets) : tg[i].pc = "done" /\ tg[i].wg = 0
    /\ \A i \in DOMAIN tg \ (1..Len(targets)) :
          (tg[i].pc = "done" /\ tg[i].wg = 0) \/ tg[i].pc = "crashed"

\* C4: provided every probe returns, every latch reaches zero and the scan
\* returns: the latch of a target always equals its increments not yet matched
\* (a task that completed, failed, panicked or was rejected took exactly one
\* off), and every run ends with the scan returned, every target of the scan
\* finished and its latch at zero
C4_LatchesDrain ==
    /\ [](\A i \in DOMAIN tg : tg[i].wg = Outstanding(i))
    /\ <>[]ScanOver

\* a scan has returned in which a submission was rejected, a task panicked
\* and a task returned an error
C4_Witness ==
    /\ ScanReturned
    /\ \A e \in {"rejected", "panic", "err"} : \E p \in DOMAIN task : task[p].end = e

\* the strings of the input, trimmed
InputStrings ==
    {TrimSpace(cfg.Target[k]) : k \in 1..Len(cfg.Target)}
    \cup {TrimSpace(cfg.TargetsList[k]) : k \in 1..Len(cfg.TargetsList)}

\* how often the scan has started processing the string s
Processed(s) ==
    Cardinality({i \in 1..Len(targets) : targets[i] = s /\ tg[i].pc \notin {"idle", "queued"}})

\* C5: a target string that appears k >= 1 times in the input after trimming,
\* given by --url or in the target file, is processed exactly once (never
\* twice, and once when the scan has returned); blank entries are never
\* processed, and nothing is processed that is not in the input
C5_ProcessedOnce ==
    /\ \A i \in 1..Len(targets) : targets[i] # <<>> /\ targets[i] \in InputStrings
    /\ \A s \in InputStrings : Processed(s) <= 1
    /\ ScanReturned => \A s \in InputStrings \ {<<>>} : Processed(s) = 1

\* a scan of a target file with repeated and blank lines has returned
C5_Witness ==
    /\ ScanReturned
    /\ cfg.HasTargetsList
    /\ Len(cfg.TargetsList) > Len(targets)
    /\ <<>> \in InputStrings
    /\ \A i \in 1..Len(targets) : tg[i].emitted = 1

\* C6: with active mode off, a rule whose (trimmed) path is neither empty nor
\* "/", or whose method is not GET, or that has headers, is bound to false and
\* sends no request: every request of a target is its base request or belongs
\* to a rule evaluation that was not skipped
C6_PassiveRulesSkipped ==
    ~cfg.Active =>
      /\ \A p \in DOMAIN task : \A k \in 1..Len(task[p].seen) :
           LET rule == cfg.AllFinger[p[2]].Rules[k]
               path == TrimSpace(rule.Request.Path)
           IN  (\/ path # <<>> /\ path # <<"/">>
                \/ rule.Request.Method # "GET"
                \/ rule.Request.Headers)
               => /\ task[p].seen[k].src = "gated"
                  /\ rule.Key \in DOMAIN task[p].bound
                  /\ ~task[p].bound[rule.Key]
      /\ \A i \in DOMAIN tg :
           tg[i].probes = (IF tg[i].pc \in {"idle", "queued", "base"} THEN 0 ELSE 1) + RuleProbes(i)

\* a passive scan has skipped a rule with a path, one with a method and one
\* with headers, and evaluated the rule that follows them
C6_Witness ==
    /\ ~cfg.Active
    /\ \E p \in DOMAIN task :
         /\ Len(task[p].seen) = 4
         /\ \A k \in 1..3 : task[p].seen[k].src = "gated"
         /\ task[p].seen[4].src = "cache"
         /\ tg[p[1]].pc = "done"

\* the rules of the rule set: (fingerprint, rule) indices
RuleSet ==
    UNION {{<<j, k>> : k \in 1..Len(cfg.AllFinger[j].Rules)} : j \in 1..Len(cfg.AllFinger)}

RuleAt(jk) == cfg.AllFinger[jk[1]].Rules[jk[2]]

\* a rule set of two rules, both GET with empty path, no headers, empty body
TwoPlainRules ==
    /\ Cardinality(RuleSet) = 2
    /\ \A jk \in RuleSet :
         /\ RuleAt(jk).Request.Method = "GET"
         /\ RuleAt(jk).Request.Path = <<>>
         /\ ~RuleAt(jk).Request.Headers
         /\ RuleAt(jk).Request.Body = 0

\* the base request of target i is the only request made (none by a rule, none
\* for a favicon, no HEAD request of CheckProtocol and none of GetTitle for an
\* i18n script), and every rule was evaluated on the cached response of the
\* base request
OnlyBaseRequest(i) ==
    /\ tg[i].probes + iconRequests + baseRequests.head + baseRequests.title = 1
    /\ \A p \in TasksOf(i) :
         /\ Len(task[p].seen) = Len(cfg.AllFinger[p[2]].Rules)
         /\ \A k \in 1..Len(task[p].seen) :
              task[p].seen[k].src = "cache" /\ task[p].seen[k].resp = BaseResp.id

\* C7 as stated: for a rule set of two rules that both have method GET, empty
\* path, no headers and empty body, run against one target that answers its
\* base request and is processed within the TTL, exactly one outbound request
\* is made, and the rules bind from the cache and see the same response
C7_OneRequestForTwoPlainRules ==
    (/\ TwoPlainRules
     /\ Len(targets) = 1
     /\ tg[1].pc = "done"
     /\ tg[1].baseOk
     /\ now <= ttl)
    => OnlyBaseRequest(1)

\* C9: after a target's processing completes, for any rule set, the empty one
\* included, the cache holds no entry for the target's URL under any method of
\* {GET, POST, HEAD, PUT, DELETE, OPTIONS} and either redirect flag
C9_ClearedAfterTarget ==
    \A i \in DOMAIN tg :
        tg[i].pc = "done" =>
            \A m \in Methods, r \in BOOLEAN :
                GenerateCacheKey(RemoveTrailingSlash(tg[i].url), m, r) \notin DOMAIN cache

----------------------------------------------------------------------------
(* Claims about rule evaluation *)

\* the rules of the fingerprint of task p, and their names
RulesOf(p) == cfg.AllFinger[p[2]].Rules

RuleKeys(p) == {RulesOf(p)[k].Key : k \in 1..Len(RulesOf(p))}

\* history: the result of the k-th rule of task p as its evaluation record
\* tells it: false when the rule was skipped or its request failed, false when
\* its expression had an error, the value of the expression otherwise
RuleResult(p, k) ==
    LET rec == task[p].seen[k]
        ev  == Evaluate(RulesOf(p)[k].Expression, [id |-> rec.resp], EmptyMap)
    IN  IF rec.src \in {"gated", "failed"} THEN FALSE
        ELSE ev.kind = "bool" /\ ev.val

\* C11: for a fingerprint whose expression is r0 && r1 && ... over its rules,
\* once the top-level expression has been evaluated every rule name is bound,
\* each rule was evaluated exactly once and is bound to its result (false when
\* skipped or failed), and the fingerprint is true iff every rule was true
C11_ConjunctionOfRules ==
    \A p \in DOMAIN task :
        (task[p].end = "ok" /\ cfg.AllFinger[p[2]].Expression = "and" /\ Len(RulesOf(p)) > 0) =>
            /\ DOMAIN task[p].bound = RuleKeys(p)
            /\ Len(task[p].seen) = Len(RulesOf(p))
            /\ \A k \in 1..Len(RulesOf(p)) :
                  /\ task[p].seen[k].key = RulesOf(p)[k].Key
                  /\ task[p].bound[RulesOf(p)[k].Key] = RuleResult(p, k)
            /\ task[p].result = (\A k \in 1..Len(RulesOf(p)) : RuleResult(p, k))

\* a fingerprint of several rules has come out false with one rule true and
\* the others skipped
C11_Witness ==
    \E p \in DOMAIN task :
        /\ task[p].end = "ok"
        /\ cfg.AllFinger[p[2]].Expression = "and"
        /\ Len(RulesOf(p)) > 1
        /\ ~task[p].result
        /\ \E k \in 1..Len(RulesOf(p)) : RuleResult(p, k)
        /\ \E k \in 1..Len(RulesOf(p)) : task[p].seen[k].src = "gated"

\* the k-th rule evaluation of task p met an error: its request failed, or
\* its expression did not compile or failed at run time
RuleError(p, k) ==
    \/ task[p].seen[k].src = "failed"
    \/ /\ task[p].seen[k].src \in {"cache", "probe"}
       /\ Evaluate(RulesOf(p)[k].Expression, [id |-> task[p].seen[k].resp], EmptyMap).kind = "err"

\* C12: a network error of a rule's request, or an error of its expression,
\* binds the rule's name to false and does not end the task: the task has moved
\* on past the rule, a task that reached its final expression has evaluated
\* every rule, and the target has its result when the scan returns
C12_RuleErrorBindsFalse ==
    \A p \in DOMAIN task : \A k \in 1..Len(task[p].seen) :
        RuleError(p, k) =>
            /\ RulesOf(p)[k].Key \in DOMAIN task[p].bound
            /\ ~task[p].bound[RulesOf(p)[k].Key]
            /\ task[p].ri > k
            /\ task[p].pc = "done" => task[p].end \in {"ok", "err", "panic"}
            /\ task[p].end \in {"ok", "err"} => Len(task[p].seen) = Len(RulesOf(p))
            /\ ScanReturned => tg[p[1]].emitted = 1

\* a task whose first rule's request failed and whose second rule's expression
\* did not compile has evaluated its third rule and its final expression
C12_Witness ==
    \E p \in DOMAIN task :
        /\ task[p].end = "ok"
        /\ Len(task[p].seen) = 3
        /\ task[p].seen[1].src = "failed"
        /\ task[p].seen[2].src = "cache" /\ RuleError(p, 2)
        /\ task[p].seen[3].src = "cache" /\ task[p].bound["r2"]
        /\ tg[p[1]].pc = "done"

\* the k-th rule of task p asks for the rest to be left out: it has
\* stop_if_match and was true, or stop_if_mismatch and was false
Stops(p, k) ==
    \/ RulesOf(p)[k].StopIfMatch /\ RuleResult(p, k)
    \/ RulesOf(p)[k].StopIfMismatch /\ ~RuleResult(p, k)

\* C14: when a rule with stop_if_match evaluates true, or a rule with
\* stop_if_mismatch evaluates false, no later rule of the fingerprint is
\* probed or evaluated
C14_StopShortCircuits ==
    \A p \in DOMAIN task : \A k \in 1..Len(task[p].seen) :
        Stops(p, k) => Len(task[p].seen) <= k

----------------------------------------------------------------------------
(* Claims about the rule pool *)

\* the panic handler of the rule pool runs for task p in this step
Panics(p) ==
    /\ task[p].end = "panic"
    /\ task[p].pc \in {"count", "freed"}
    /\ task'[p].pc \in {"handled", "done"}

\* the panic handler of the URL pool runs for the handler of target i in this
\* step
URLPanics(i) == tg[i].pc = "unwound" /\ tg'[i].pc = "panicked"

\* C13: a panic inside a task of either pool, the rule pool or the URL pool,
\* is caught by the panic handler of that pool, and when the handler runs the
\* failure counter goes up by exactly one (rulePoolStats.FailedTasks is the
\* only failure counter the program keeps) and the completion counter does
\* not move; the pool keeps running: once the handler has run and the worker
\* has given up its place, the task holds no worker any more
C13_PanicCounted ==
    [][/\ \A p \in DOMAIN task \cap DOMAIN task' :
             Panics(p) =>
                 /\ rulePoolStats'.FailedTasks = rulePoolStats.FailedTasks + 1
                 /\ rulePoolStats'.CompletedTasks = rulePoolStats.CompletedTasks
                 /\ task'[p].pc = "done" => p \notin RunningTasks'
       /\ \A i \in DOMAIN tg \cap DOMAIN tg' :
             URLPanics(i) =>
                 /\ rulePoolStats'.FailedTasks = rulePoolStats.FailedTasks + 1
                 /\ rulePoolStats'.CompletedTasks = rulePoolStats.CompletedTasks
                 /\ i \notin RunningTargets'
      ]_vars

----------------------------------------------------------------------------
(* Claims about the rule store *)

\* C15: the contents of a snapshot, once returned, never change: whatever
\* loads and rule evaluations run afterwards, the snapshot lists the pointers
\* it was taken with and they point to the fingerprints it was taken with
C15_SnapshotImmutable ==
    \A s \in 1..Len(snapshots) :
        /\ Contents(heap, snapshots[s].slice) = snapshots[s].taken
        /\ \A i \in 1..Len(snapshots[s].taken) :
              objs[snapshots[s].taken[i]] = snapshots[s].fingers[i]

\* after a snapshot was taken a load has written another fingerprint into the
\* array AllFinger had at the time, and a rule of the snapshot was evaluated
C15_Witness ==
    \E s \in 1..Len(snapshots) :
        /\ snapshots[s].slice.len > 0
        /\ nloads > snapshots[s].epoch
        /\ ~loading.active
        /\ AllFinger.arr = snapshots[s].from
        /\ Contents(heap, AllFinger) # snapshots[s].taken
        /\ ruleLocal # Nil

\* the observation o is the rule set: a snapshot lists it, a count is its length
Sees(o, set) == IF o.kind = "snapshot" THEN o.val = set ELSE o.val = Len(set)

\* C16: a snapshot or count taken while a load is in progress sees the complete
\* rule set from before the load or the complete rule set after it; one taken
\* while no load is in progress sees the rule set of the time
C16_LoadAtomic ==
    \A o \in observed :
        /\ o.epoch = 0 => Sees(o, o.before)
        /\ (o.epoch > 0 /\ o.epoch <= Len(returned)) =>
              Sees(o, o.before) \/ Sees(o, returned[o.epoch].set)

\* C17: a load that returns an error leaves the previously published rule
\* set unchanged
C17_FailedLoadKeepsRules ==
    \A n \in 1..Len(returned) : returned[n].err => returned[n].set = returned[n].before

----------------------------------------------------------------------------
(* Claims about the configuration *)

\* C18: once the Runner is configured, its rule-worker count lies in
\* [200, 5000] whatever --rule-threads was: zero, negative or above 5000
C18_RuleWorkersClamped ==
    Config # Nil =>
      /\ Config.FingerWorkerCount >= 200
      /\ Config.FingerWorkerCount <= 5000
      /\ (cmdOptions.RuleThreads \in 200..5000 =>
            Config.FingerWorkerCount = cmdOptions.RuleThreads)

\* a Runner configured from a --rule-threads above 5000
C18_Witness ==
    /\ cmdPc = "configured"
    /\ cmdOptions.RuleThreads > 5000
    /\ Config.FingerWorkerCount = 5000

----------------------------------------------------------------------------
(* Claims about the probe of a target *)

\* C19: with redirect following on, a request whose chain has k redirects
\* ends with the final response when k <= 5 and with the redirect-limit error
\* when k > 5
C19_FiveRedirectsFollowed ==
    (httpClient.pc = "done" /\ httpClient.followRedirects) =>
      /\ site.chain <= 5 =>
           /\ httpClient.err = "none"
           /\ httpClient.hop = site.chain
           /\ httpClient.resp.status = 200
      /\ site.chain > 5 => httpClient.err = "limit"

\* the target's root answers 302 to another URL, which answers 200
OneRedirect == site # Nil /\ site.chain = 1

\* the rule is response.status == 200 with the default request, which leaves
\* follow_redirects at its default
DefaultRule == site.rule = StatusRule(FALSE)

\* the URL the redirect of the root leads to
FinalUrl == HopUrl(BaseUrl(site.target, site.net), site.chain)

\* C20: when the root answers 302 to a URL that answers 200, the rule
\* response.status == 200 matches and the URL in the base information and in
\* the TargetResult is the final URL after the redirect
C20_FinalUrlReported ==
    (OneRedirect /\ DefaultRule /\ probePc = "done") =>
      /\ matched.val
      /\ baseInfoResp.Url = FinalUrl
      /\ targetResult.URL = FinalUrl

\* C21: every response body bound for evaluation, from the base request
\* through the cache or from a fresh rule probe, is at most 512 KiB long
\* (two units of 256 KiB)
C21_BodyAtMost512K ==
    (matched # Nil /\ matched.src # "failed") => matched.body <= 2

----------------------------------------------------------------------------
(* Claims about the run of the command *)

\* C22: the process ends with code 0 after a clean run, and with a non-zero
\* code when the command line is rejected or when the rules fail to load
C22_ExitCodes ==
    /\ (cmdPc = "exited" /\ runErr = "none") => exitCode = <<0>>
    /\ cmdPc = "rejected" => (exitCode # <<>> /\ exitCode # <<0>>)
    /\ (cmdPc = "exited" /\ runErr = "rules") => exitCode # <<0>>

\* C25: once the run that initialised the socket sink has ended, the listener
\* and every tracked connection are closed
C25_SockClosedOnExit ==
    (cmdPc = "exited" /\ sockListener # "nil") =>
      /\ sockListener = "closed"
      /\ \A c \in DOMAIN conns : conns[c].pc = "reading" => ~conns[c].open

----------------------------------------------------------------------------
(* Claims about what a load accepts *)

\* C23: after a load from an explicit list of files has succeeded, the rule
\* set holds the fingerprint read from every .yaml/.yml file of the list
C23_EveryListedFileLoaded ==
    [][(loading.active /\ ~loading'.active /\ Len(loading.options.FingerYaml) # 0
          /\ ~returned'[Len(returned')].err) =>
         \A i \in 1..Len(loading.options.FingerYaml) :
           IsYamlFile(loading.options.FingerYaml[i]) =>
             \E j \in 1..Len(published') :
               published'[j] = PtrOf(loading.options.FingerYaml[i], nloads)]_vars

\* the transports a fingerprint may name
Transports == {"http", "tcp", "udp", "ssl", "go"}

\* a fingerprint that loading is to reject
Malformed(f) ==
    \/ f.Id = ""
    \/ Len(f.Rules) = 0
    \/ \E i \in 1..Len(f.Expression) :
         \A j \in 1..Len(f.Rules) : f.Rules[j] # f.Expression[i]
    \/ f.Transport \notin Transports

\* C24: no snapshot ever holds a fingerprint without an id, without rules,
\* with an expression that calls an undefined rule, or with a transport
\* outside the allowed set
C24_NoMalformedInSnapshot ==
    \A s \in 1..Len(snapshots) :
      \A i \in 1..Len(snapshots[s].fingers) : ~Malformed(snapshots[s].fingers[i])

----------------------------------------------------------------------------
(* Claims about the summary of a scan *)

\* C26: when the summary of a completed scan is computed, the results map
\* holds exactly one entry per scanned target, so that the matched and the
\* unmatched targets add up to the total
C26_SummaryCountsEveryTarget ==
    [][(scanPc = "done" /\ scanPc' = "summary") =>
         /\ DOMAIN Results = {targets[i] : i \in 1..Len(targets)}
         /\ PrintSummary(targets, Results).matchCount
              + PrintSummary(targets, Results).noMatchCount
            = PrintSummary(targets, Results).total]_vars

----------------------------------------------------------------------------
(* Claims about the server information *)

\* C27: the server information of a response with the header
\* Server: nginx/1.18.0 has the original "nginx/1.18.0", the product "nginx"
\* and the version "1.18.0"
C27_NginxServerInfo ==
    (serverHeader = nginxHeader /\ serverInfo # Nil) =>
      /\ serverInfo.OriginalServer = nginxHeader
      /\ serverInfo.ServerType = <<"n", "g", "i", "n", "x">>
      /\ serverInfo.Version = <<"1", ".", "1", "8", ".", "0">>

----------------------------------------------------------------------------
(* Claims about eviction *)

\* the keys a step removes from the cache, and the keys it adds
Evicted == DOMAIN cache \ DOMAIN cache'
Added == DOMAIN cache' \ DOMAIN cache

\* C28: a write that would exceed the capacity (a new key into a full cache)
\* evicts exactly one entry, one with the smallest timestamp among the stored
\* entries; any other write evicts nothing
C28_EvictsOldestOnlyWhenFull ==
    [][lastOp' = "write" =>
         IF Added # {} /\ Cardinality(DOMAIN cache) + 1 > maxSize
         THEN /\ Cardinality(Evicted) = 1
              /\ \A g \in Evicted : \A j \in DOMAIN cache :
                    cache[g].Timestamp <= cache[j].Timestamp
         ELSE Evicted = {}]_vars

----------------------------------------------------------------------------
(* Claims about the submission of rule tasks *)

\* the submission of fingerprint j of target i is given up in this step
GivenUp(i, j) == task[<<i, j>>].end # "rejected" /\ task'[<<i, j>>].end = "rejected"

\* C29: a submission that fails is made once more, and only once; when it
\* fails again the fingerprint adds no match, its count is taken off the
\* latch, and the fingerprints after it are still submitted.  A submission
\* fails at the nil test, in Invoke, or after blocking when the pool is
\* released; the second call ends with an answer of the pool or, the pool
\* variable cleared under it, in a panic
C29_RetryOnceThenSkip ==
    /\ [](\A p \in DOMAIN task : task[p].end = "rejected" =>
            /\ \A k \in 1..Len(tg[p[1]].chan) : tg[p[1]].chan[k] # cfg.AllFinger[p[2]].Id
            /\ \A k \in 1..Len(tg[p[1]].matches) :
                  tg[p[1]].matches[k] # cfg.AllFinger[p[2]].Id
            /\ tg[p[1]].pc \in {"wait", "clear", "output", "send", "return", "done"} =>
                  \A q \in DOMAIN task : (q[1] = p[1] /\ q[2] > p[2]) => task[q].pc # "none")
    /\ [][\A i \in DOMAIN tg \cap DOMAIN tg' :
            /\ (tg[i].pc # "retry" /\ tg'[i].pc = "retry") =>
                  /\ tg[i].pc \in {"submit", "invoke", "blocked"}
                  /\ ~tg[i].again /\ tg'[i].again
                  /\ tg'[i].fi = tg[i].fi
                  /\ tg'[i].wg = tg[i].wg + (IF tg[i].pc = "submit" THEN 1 ELSE 0)
            /\ (tg[i].again /\ tg'[i].again) =>
                  /\ tg'[i].pc \in {"retry", "invoke", "blocked", "accepted", "crashed"}
                  /\ tg'[i].fi = tg[i].fi
                  /\ tg'[i].wg <= tg[i].wg
            /\ \A j \in 1..Len(cfg.AllFinger) :
                  GivenUp(i, j) =>
                    /\ tg[i].pc \in {"retry", "invoke", "blocked"} /\ tg[i].again
                    /\ tg[i].fi = j
                    /\ tg'[i].wg = tg[i].wg - 1
                    /\ tg'[i].fi = j + 1]_vars

\* a scan has returned in which a submission was given up and the
\* fingerprint after it, of the same target, was accepted and ran to its end
C29_Witness ==
    /\ ScanReturned
    /\ \E p, q \in DOMAIN task :
         /\ task[p].end = "rejected"
         /\ q[1] = p[1] /\ q[2] > p[2]
         /\ task[q].pc = "done" /\ task[q].end # "rejected"
         /\ tg[p[1]].pc = "done" /\ tg[p[1]].wg = 0

----------------------------------------------------------------------------
(* Claims about the matches of a target *)

\* how often fingerprint id is among the matches of target i, collected or
\* still in the channel
Reported(i, id) ==
    Cardinality({k \in 1..Len(tg[i].matches) : tg[i].matches[k] = id})
    + Cardinality({k \in 1..Len(tg[i].chan) : tg[i].chan[k] = id})

\* the task p ends in this step with a final expression that is true
EndsTrue(p) == task[p].pc = "final" /\ task'[p].pc # "final" /\ task'[p].result

\* C30: a match is dropped only when the result channel of the target, of
\* capacity min(rule count, cap), is full at the send; with a rule set no
\* larger than the cap that never happens, and every fingerprint whose final
\* expression was true is among the target's matches exactly once
C30_NoDropWithinCap ==
    /\ [](\A p \in DOMAIN task :
            /\ Reported(p[1], cfg.AllFinger[p[2]].Id) <= 1
            /\ (Len(cfg.AllFinger) <= maxChanCap /\ task[p].end = "ok" /\ task[p].result) =>
                  /\ Reported(p[1], cfg.AllFinger[p[2]].Id) = 1
                  /\ tg[p[1]].pc = "done" =>
                        \E k \in 1..Len(tg[p[1]].matches) :
                          tg[p[1]].matches[k] = cfg.AllFinger[p[2]].Id)
    /\ [][\A p \in DOMAIN task \cap DOMAIN task' :
            (EndsTrue(p) /\ tg'[p[1]].chan = tg[p[1]].chan) =>
               Len(tg[p[1]].chan) = chanCap(Len(cfg.AllFinger))]_vars

\* a target is done whose rule set is exactly as large as the cap, and every
\* fingerprint of it was true and is among the matches
C30_Witness ==
    \E i \in DOMAIN tg :
      /\ tg[i].pc = "done"
      /\ Len(cfg.AllFinger) = maxChanCap
      /\ \A j \in 1..Len(cfg.AllFinger) :
           /\ task[<<i, j>>].result
           /\ Reported(i, cfg.AllFinger[j].Id) = 1

----------------------------------------------------------------------------
(* Claims about the scheme of a host *)

\* the call was made on a host without a scheme
SchemeLess == protoResult # Nil /\ TrimSpace(protoHost) # <<>> /\ ~HasScheme(protoHost)

\* C31: for a host without a scheme, CheckProtocol sends a HEAD request to
\* https://host and, if that fails, one to http://host, and the URL it
\* returns carries the scheme whose request was answered
C31_ProbesHttpsThenHttp ==
    SchemeLess =>
        /\ Len(headProbes) >= 1
        /\ headProbes[1] = HttpsPrefix \o protoHost
        /\ protoNet.https = "fail" =>
               Len(headProbes) = 2 /\ headProbes[2] = HttpPrefix \o protoHost
        /\ protoNet.https = "tls" =>
               ~protoResult.err /\ protoResult.url = HttpsPrefix \o protoHost
        /\ (protoNet.https = "fail" /\ protoNet.http = "plain") =>
               ~protoResult.err /\ protoResult.url = HttpPrefix \o protoHost

----------------------------------------------------------------------------
(* Claims about the TCP/UDP client *)

\* C32: Send and Receive enter their retry loop only after a timeout; the
\* loop re-dials at most maxRetries times and sleeps the retry delay before
\* each dial; any other error is returned at once, without a dial
C32_RetryOnlyAfterTimeout ==
    clientCall # Nil =>
        /\ dials <= maxRetries(clientConf)
        /\ sleeps = dials
        /\ (clientCall.pc = "retry" \/ dials > 0) => clientCall.io[1] = "timeout"
        /\ clientCall.io[1] \in {"reset", "eof"} =>
               clientCall.pc = "returned" /\ clientCall.err # "none" /\ dials = 0

\* C33: a Receive whose first read or whose read after a re-dial delivered
\* bytes returns those bytes and no error; it returns an error only when no
\* read delivered anything
C33_ReceiveReturnsBytesRead ==
    (clientCall # Nil /\ clientCall.op = "Receive" /\ clientCall.pc = "returned") =>
        /\ clientCall.io[Len(clientCall.io)] = "data" =>
               clientCall.err = "none" /\ clientCall.data = PeerBytes
        /\ clientCall.err # "none" =>
               \A k \in 1..Len(clientCall.io) : clientCall.io[k] # "data"

----------------------------------------------------------------------------
(* Claims about the redirect setting of a rule *)

\* C34: the request of a rule is sent with the rule's follow_redirects
\* setting, and every cache entry written when a request returns carries in
\* its key the setting that request was sent with
C34_ProbeSentWithRuleSetting ==
    [][/\ probePc' = "probe" =>
              httpClient'.followRedirects = site.rule.Request.FollowRedirects
       /\ \A k \in DOMAIN cache' :
              (k \notin DOMAIN cache \/ cache'[k] # cache[k]) =>
                  k[3] = httpClient.followRedirects]_vars

----------------------------------------------------------------------------
(* Claims about concurrent rule tasks *)

\* the cache key of the rule a task stands at, NoKey when it is not cacheable
TaskKey(p) ==
    LET rule == cfg.AllFinger[p[2]].Rules[task[p].ri]
    IN  ReadKey(rule.Request, ParseTarget(tg[p[1]].url, TrimSpace(rule.Request.Path)))

\* C35: two rule tasks of one target never have requests for the same
\* cacheable key in flight at once
C35_OneProbePerKey ==
    \A p, q \in DOMAIN task :
        (p # q /\ p[1] = q[1] /\ task[p].pc = "probe" /\ task[q].pc = "probe"
              /\ TaskKey(p) # NoKey)
            => TaskKey(p) # TaskKey(q)

----------------------------------------------------------------------------
(* Claims about the deletion of expired entries *)

\* C36: the deletion a read starts for an expired entry leaves an entry
\* alone that was written under the same key since that read: an entry
\* that has not expired survives the deletion
C36_DeletionSparesNewEntry ==
    [][\A k \in DOMAIN pendingDel :
          (/\ pendingDel'[k] < pendingDel[k]
           /\ k \in DOMAIN cache
           /\ Fresh(cache[k], now))
              => k \in DOMAIN cache' /\ cache'[k] = cache[k]]_vars

----------------------------------------------------------------------------
(* Claims about the counters of the rule pool *)

\* the rule tasks the pool accepted, and those of them that have finished
Accepted == {p \in DOMAIN task : task[p].pc # "none" /\ task[p].end # "rejected"}
Finished == {p \in Accepted : task[p].pc = "done"}

\* the accepted tasks for which SubmitRuleTask has returned to its caller
Returned == {p \in Accepted : ~(tg[p[1]].pc = "accepted" /\ tg[p[1]].fi = p[2])}

\* C37: every accepted rule task is counted once in TotalTasks and, once it
\* has finished, in exactly one of CompletedTasks and FailedTasks: their sum
\* counts every finished task and no accepted task twice, is never above
\* TotalTasks, and equal to it when every accepted task has finished (in a
\* run that does not reset the counters)
C37_CountersAddUp ==
    ~cfg.ApiReset =>
      /\ rulePoolStats.TotalTasks = Cardinality(Returned)
      /\ rulePoolStats.CompletedTasks + rulePoolStats.FailedTasks >= Cardinality(Finished)
      /\ rulePoolStats.CompletedTasks + rulePoolStats.FailedTasks <= Cardinality(Accepted)
      /\ rulePoolStats.CompletedTasks + rulePoolStats.FailedTasks <= rulePoolStats.TotalTasks
      /\ (Finished = Accepted /\ Returned = Accepted) =>
             rulePoolStats.CompletedTasks + rulePoolStats.FailedTasks = rulePoolStats.TotalTasks

----------------------------------------------------------------------------
(* Claims about concurrent calls of Run *)

\* the Run of Execute is past its swap and its deferred Store(false) has
\* not run
MainInRun ==
    \/ cmdPc \in {"targets", "output", "sock", "rules", "pool"}
    \/ cmdPc = "return" /\ \E i \in DOMAIN deferred : deferred[i] = "Store"

\* C38: at most one Run executes on a Runner at a time; a Run that finds
\* another in progress returns an error and has opened no sink, deferred
\* nothing and printed no summary; isRunning is set exactly while a Run
\* executes, so it is false again once that Run has returned
C38_OneRunAtATime ==
    /\ ~(MainInRun /\ otherRun = "running")
    /\ isRunning <=> (MainInRun \/ otherRun = "running")
    /\ runErr = "running" =>
           /\ deferred = <<>>
           /\ outputFile = "nil"
           /\ sockListener = "nil"
           /\ ~summaryPrinted

\* the Run of Execute was refused while the other ran, both have returned
\* and the flag is false
C38_Witness ==
    /\ cmdPc = "exited"
    /\ runErr = "running"
    /\ otherRun = "returned"
    /\ ~isRunning

----------------------------------------------------------------------------
(* Claims about a target whose base information cannot be fetched *)

\* the targets whose GetBaseInfo failed and whose handler has finished
BaseFailed == {i \in 1..Len(targets) : tg[i].pc = "done" /\ ~tg[i].baseOk}

\* C39: for a target whose GetBaseInfo failed no rule task is submitted, no
\* cache entry is written under its URL, and its TargetResult is handed to
\* the output once, without matches, as it is wherever the scan keeps it
C39_BaseFailureEmitsEmpty ==
    \A i \in BaseFailed :
        /\ \A p \in DOMAIN task : p[1] = i => task[p].pc = "none"
        /\ tg[i].fi = 1 /\ tg[i].wg = 0
        /\ \A k \in DOMAIN cache :
               k[1] \notin {RemoveTrailingSlash(targets[i])}
                            \cup {RemoveTrailingSlash(BaseUrl(targets[i], net)) :
                                     net \in ProtoNets}
        /\ tg[i].emitted = 1
        /\ tg[i].matches = <<>>
        /\ \A n \in 1..Len(resultChan) :
               resultChan[n].target = targets[i] => resultChan[n].result.Matches = <<>>
        /\ targets[i] \in DOMAIN Results => Results[targets[i]].Matches = <<>>

\* the scan of a target with fingerprints has returned, the base information
\* of the target could not be fetched, and its result was collected
C39_Witness ==
    /\ ScanReturned
    /\ Len(cfg.AllFinger) > 0
    /\ \E i \in BaseFailed : targets[i] \in DOMAIN Results

====
